---- MODULE Spec2Model ----
(***************************************************************************)
(* Agent graph runtime of xpert: one agent's loop as compiled by           *)
(* createAgentSubgraph (model call -> afterModel hook of the               *)
(* HumanInTheLoopMiddleware -> createAgentNavigator -> ToolNode per Send   *)
(* with the ClientToolMiddleware wrapToolCall -> back to the model), the    *)
(* result stream built by XpertAgentInvokeHandler.execute, the input it    *)
(* hands to the graph on a resume, and the compiled graph's hook nodes,    *)
(* conditional routers and wrapModelCall chain.                            *)
(***************************************************************************)
EXTENDS Integers, Sequences, FiniteSets, TLC

(***************************************************************************)
(* Bounds of the model.                                                    *)
(***************************************************************************)
\* tool calls the model emits in one run (the pool of tool-call ids)
MaxCalls == 2

\* JavaScript undefined / null
Undef == "<undefined>"

\* tools bound to the agent; each is a graph node of the same name (subgraph.handler.ts:978-1007)
ToolNames == {"delete", "search", "browser"}

HitlDecisionTypes == {"approve", "edit", "reject"}

RECURSIVE SeqsUpTo(_, _)
SeqsUpTo(S, n) ==
    IF n = 0 THEN {<< >>}
    ELSE LET shorter == SeqsUpTo(S, n - 1)
         IN  shorter \cup {Append(s, x) : s \in {t \in shorter : Len(t) = n - 1}, x \in S}

Last(s) == s[Len(s)]

(***************************************************************************)
(* Messages and tool calls.                                                *)
(***************************************************************************)
ToolCall(id, name, args) == [id |-> id, name |-> name, args |-> args]

Message(type, id, tool_calls, tool_call_id, name, status, content) ==
    [type |-> type, id |-> id, tool_calls |-> tool_calls, tool_call_id |-> tool_call_id,
     name |-> name, status |-> status, content |-> content]

HumanMessage(id) == Message("human", id, << >>, Undef, Undef, Undef, <<"input">>)

AIMessage(id, tool_calls) == Message("ai", id, tool_calls, Undef, Undef, Undef, << >>)

\* new ToolMessage({content, name, tool_call_id, status}); the id is given by the reducer
ToolMessage(content, name, tool_call_id, status) ==
    Message("tool", Undef, << >>, tool_call_id, name, status, content)

isAIMessage(m) == m.type = "ai"

isToolMessage(m) == m.type = "tool"

IndexOfId(msgs, id) ==
    IF \E i \in 1..Len(msgs) : msgs[i].id = id
    THEN CHOOSE i \in 1..Len(msgs) : msgs[i].id = id
    ELSE 0

\* messagesStateReducer: a message whose id is already in the list replaces it in
\* place, any other message is appended (a message without id gets a fresh uuid)
RECURSIVE messagesStateReducer(_, _)
messagesStateReducer(left, right) ==
    IF right = << >> THEN left
    ELSE LET m == Head(right)
             i == IF m.id = Undef THEN 0 ELSE IndexOfId(left, m.id)
             merged == IF i = 0 THEN Append(left, m) ELSE [left EXCEPT ![i] = m]
         IN  messagesStateReducer(merged, Tail(right))

(***************************************************************************)
(* HumanInTheLoopMiddleware (hitl.ts).                                     *)
(***************************************************************************)
\* interruptOn: [set |-> is the option given, map |-> tool name -> toolConfig]; a
\* toolConfig is [flag |-> "true" | "false" | "config", allowedDecisions |-> set]
BoolConfig(b) == [flag |-> IF b THEN "true" ELSE "false", allowedDecisions |-> {}]

InterruptOnConfig(allowedDecisions) == [flag |-> "config", allowedDecisions |-> allowedDecisions]

resolvedConfigs(interruptOn) ==
    LET reviewed == {n \in DOMAIN interruptOn.map : interruptOn.map[n].flag # "false"}
    IN  [n \in reviewed |->
            IF interruptOn.map[n].flag = "true"
            THEN HitlDecisionTypes
            ELSE interruptOn.map[n].allowedDecisions]

interruptToolCalls(tool_calls, rc) ==
    SelectSeq(tool_calls, LAMBDA c : c.name \in DOMAIN rc)

autoApprovedToolCalls(tool_calls, rc) ==
    SelectSeq(tool_calls, LAMBDA c : c.name \notin DOMAIN rc)

\* a Decision of the HITLResponse; editedAction.name = Undef is a missing or
\* malformed editedAction, message = Undef an omitted message
Decision(type, editedAction, message) ==
    [type |-> type, editedAction |-> editedAction, message |-> message]

NoAction == [name |-> Undef, args |-> Undef]

NoMessage == ToolMessage(<< >>, Undef, Undef, Undef)

NoToolCall == ToolCall(Undef, Undef, Undef)

\* the two checks of an edited action's structure
editedActionOk(editedAction) == editedAction.name # Undef /\ editedAction.args # Undef

\* the result of processDecision: returned, or thrown
Processed(revisedToolCall, hasMessage, toolMessage) ==
    [ok |-> TRUE, revisedToolCall |-> revisedToolCall, hasMessage |-> hasMessage,
     toolMessage |-> toolMessage]

ProcessThrows ==
    [ok |-> FALSE, revisedToolCall |-> NoToolCall, hasMessage |-> FALSE, toolMessage |-> NoMessage]

\* the content of the ToolMessage of a rejection without a message
defaultRejectContent(toolCall) ==
    <<"User rejected the tool call for ", toolCall.name, " with id ", toolCall.id>>

\* mutant: the ToolMessage of a rejection has the default text whatever the human wrote
MutProcessDecisionDefaultText(decision, toolCall, allowedDecisions) ==
    IF decision.type = "approve" /\ "approve" \in allowedDecisions
    THEN Processed(toolCall, FALSE, NoMessage)
    ELSE IF decision.type = "edit" /\ "edit" \in allowedDecisions
    THEN IF ~editedActionOk(decision.editedAction) THEN ProcessThrows
         ELSE Processed(ToolCall(toolCall.id, decision.editedAction.name,
                                 decision.editedAction.args), FALSE, NoMessage)
    ELSE IF decision.type = "reject" /\ "reject" \in allowedDecisions
    THEN Processed(toolCall, TRUE,
                   ToolMessage(defaultRejectContent(toolCall), toolCall.name, toolCall.id, "error"))
    ELSE ProcessThrows

\* mutant: an edited tool call gets an id of its own
MutProcessDecisionEditedId(decision, toolCall, allowedDecisions) ==
    IF decision.type = "approve" /\ "approve" \in allowedDecisions
    THEN Processed(toolCall, FALSE, NoMessage)
    ELSE IF decision.type = "edit" /\ "edit" \in allowedDecisions
    THEN IF ~editedActionOk(decision.editedAction) THEN ProcessThrows
         ELSE Processed(ToolCall("edited-id", decision.editedAction.name,
                                 decision.editedAction.args), FALSE, NoMessage)
    ELSE IF decision.type = "reject" /\ "reject" \in allowedDecisions
    THEN Processed(toolCall, TRUE,
                   ToolMessage(IF decision.message # Undef
                               THEN <<decision.message>>
                               ELSE defaultRejectContent(toolCall),
                               toolCall.name, toolCall.id, "error"))
    ELSE ProcessThrows

\* mutant: the decision's type is not held against allowedDecisions
MutProcessDecisionAnyType(decision, toolCall, allowedDecisions) ==
    IF decision.type = "approve"
    THEN Processed(toolCall, FALSE, NoMessage)
    ELSE IF decision.type = "edit"
    THEN IF ~editedActionOk(decision.editedAction) THEN ProcessThrows
         ELSE Processed(ToolCall(toolCall.id, decision.editedAction.name,
                                 decision.editedAction.args), FALSE, NoMessage)
    ELSE IF decision.type = "reject"
    THEN Processed(toolCall, TRUE,
                   ToolMessage(IF decision.message # Undef
                               THEN <<decision.message>>
                               ELSE defaultRejectContent(toolCall),
                               toolCall.name, toolCall.id, "error"))
    ELSE ProcessThrows

\* processDecision: the revised tool call and the synthetic ToolMessage, or a throw
processDecision(decision, toolCall, allowedDecisions) ==
    IF decision.type = "approve" /\ "approve" \in allowedDecisions
    THEN [ok |-> TRUE, revisedToolCall |-> toolCall, hasMessage |-> FALSE, toolMessage |-> NoMessage]
    ELSE IF decision.type = "edit" /\ "edit" \in allowedDecisions
    THEN IF decision.editedAction.name = Undef \/ decision.editedAction.args = Undef
         THEN [ok |-> FALSE, revisedToolCall |-> NoToolCall, hasMessage |-> FALSE, toolMessage |-> NoMessage]
         ELSE [ok |-> TRUE,
               revisedToolCall |-> ToolCall(toolCall.id, decision.editedAction.name,
                                            decision.editedAction.args),
               hasMessage |-> FALSE, toolMessage |-> NoMessage]
    ELSE IF decision.type = "reject" /\ "reject" \in allowedDecisions
    THEN [ok |-> TRUE, revisedToolCall |-> toolCall, hasMessage |-> TRUE,
          toolMessage |->
              ToolMessage(IF decision.message # Undef
                          THEN <<decision.message>>
                          ELSE <<"User rejected the tool call for ", toolCall.name,
                                 " with id ", toolCall.id>>,
                          toolCall.name, toolCall.id, "error")]
    ELSE [ok |-> FALSE, revisedToolCall |-> NoToolCall, hasMessage |-> FALSE, toolMessage |-> NoMessage]

\* the last AI message of the channel ([...messages].reverse().find(isAIMessage))
LastAIIndex(msgs) ==
    IF \E i \in 1..Len(msgs) : isAIMessage(msgs[i])
    THEN CHOOSE i \in 1..Len(msgs) :
            isAIMessage(msgs[i]) /\ \A j \in (i + 1)..Len(msgs) : ~isAIMessage(msgs[j])
    ELSE 0

\* mutant: the afterModel hook never reaches interrupt()
MutHitlInterrupts(msgs, interruptOn) == FALSE

\* does the afterModel hook reach interrupt(hitlRequest)?
hitlInterrupts(msgs, interruptOn) ==
    /\ msgs # << >>
    /\ LastAIIndex(msgs) # 0
    /\ msgs[LastAIIndex(msgs)].tool_calls # << >>
    /\ interruptOn.set
    /\ interruptToolCalls(msgs[LastAIIndex(msgs)].tool_calls,
                          resolvedConfigs(interruptOn)) # << >>

\* mutant: one ActionRequest per tool call of the AI message, matched or not
MutActionRequests(msgs, interruptOn) ==
    LET calls == msgs[LastAIIndex(msgs)].tool_calls
    IN  [i \in 1..Len(calls) |-> [name |-> calls[i].name, args |-> calls[i].args]]

\* one ActionRequest per interrupt tool call, in order
actionRequests(msgs, interruptOn) ==
    LET calls == interruptToolCalls(msgs[LastAIIndex(msgs)].tool_calls,
                                    resolvedConfigs(interruptOn))
    IN  [i \in 1..Len(calls) |-> [name |-> calls[i].name, args |-> calls[i].args]]

\* mutant: a response with too few decisions passes the check
MutDecisionsCountOk(decisions, calls) == Len(decisions) <= Len(calls)

\* the check of the number of decisions against the interrupt tool calls
decisionsCountOk(decisions, calls) == Len(decisions) = Len(calls)

\* which processed tool calls are pushed to revisedToolCalls
keepRevised(hasRejectedToolCalls, decision) ==
    ~hasRejectedToolCalls \/ decision.type = "reject"

\* revisedToolCalls before the decisions are processed
revisedStart(autoApproved) == autoApproved

\* the hook once interrupt() has returned the HITLResponse
\* response = [isArray |-> decisions is an array, decisions |-> the array]
hitlAfterResume(msgs, interruptOn, response) ==
    LET lastMessage == msgs[LastAIIndex(msgs)]
        rc == resolvedConfigs(interruptOn)
        calls == interruptToolCalls(lastMessage.tool_calls, rc)
        auto == autoApprovedToolCalls(lastMessage.tool_calls, rc)
        decisions == response.decisions
        failed == [ok |-> FALSE, messages |-> << >>, jumpTo |-> Undef]
    IN  IF ~response.isArray THEN failed
        ELSE IF ~decisionsCountOk(decisions, calls) THEN failed
        ELSE LET hasRejectedToolCalls == \E i \in 1..Len(decisions) : decisions[i].type = "reject"
                 res == [i \in 1..Len(decisions) |->
                            processDecision(decisions[i], calls[i], rc[calls[i].name])]
                 kept == SelectSeq([i \in 1..Len(decisions) |-> i],
                                   LAMBDA i : keepRevised(hasRejectedToolCalls, decisions[i]))
                 msgIdx == SelectSeq([i \in 1..Len(decisions) |-> i],
                                     LAMBDA i : res[i].hasMessage)
             IN  IF \E i \in 1..Len(decisions) : ~res[i].ok THEN failed
                 ELSE [ok |-> TRUE,
                       messages |->
                           <<[lastMessage EXCEPT !.tool_calls =
                                 revisedStart(auto) \o [j \in 1..Len(kept) |-> res[kept[j]].revisedToolCall]]>>
                           \o [j \in 1..Len(msgIdx) |-> res[msgIdx[j]].toolMessage],
                       jumpTo |-> IF hasRejectedToolCalls THEN "model" ELSE Undef]

\* the loop over the decisions: decisions[i] is applied to interruptToolCalls[i]
appliedDecisions(msgs, interruptOn, response) ==
    LET calls == interruptToolCalls(msgs[LastAIIndex(msgs)].tool_calls, resolvedConfigs(interruptOn))
    IN  { [id |-> calls[i].id, name |-> calls[i].name, type |-> response.decisions[i].type] :
          i \in DOMAIN calls \cap DOMAIN response.decisions }

(***************************************************************************)
(* ClientToolMiddleware (unnamed/part_003).                                *)
(***************************************************************************)
\* an item of ClientToolResponse.toolMessages (a ClientToolMessageInput)
ClientToolMessageInput(tool_call_id, content, name, status) ==
    [tool_call_id |-> tool_call_id, content |-> content, name |-> name, status |-> status]

\* the outcome of a handler: a value, a thrown Error or a thrown graph interrupt
\* invoked: was tool.invoke reached; payload: what interrupt() was called with
Returned(value, invoked) ==
    [kind |-> "value", value |-> value, isCommand |-> FALSE, error |-> Undef,
     payload |-> << >>, invoked |-> invoked]

ReturnedCommand(value, invoked) ==
    [kind |-> "value", value |-> value, isCommand |-> TRUE, error |-> Undef,
     payload |-> << >>, invoked |-> invoked]

Thrown(error, invoked) ==
    [kind |-> "error", value |-> NoMessage, isCommand |-> FALSE, error |-> error,
     payload |-> << >>, invoked |-> invoked]

Interrupted(payload, invoked) ==
    [kind |-> "interrupt", value |-> NoMessage, isCommand |-> FALSE, error |-> Undef,
     payload |-> payload, invoked |-> invoked]

\* falsy ids: undefined and the empty string
Falsy(id) == id = Undef \/ id = ""

toToolMessage(message, toolCall) ==
    LET toolCallId == IF message.tool_call_id # Undef THEN message.tool_call_id ELSE toolCall.id
    IN  IF Falsy(toolCallId)
        THEN Thrown("Missing tool_call_id for client tool", FALSE)
        ELSE Returned(ToolMessage(IF message.content = Undef THEN << >> ELSE <<message.content>>,
                                  IF message.name # Undef THEN message.name ELSE toolCall.name,
                                  toolCallId, message.status),
                      FALSE)

\* the comparison of the response's tool_call_id with the interrupted call's id
clientIdMismatch(message, toolCall) ==
    /\ ~Falsy(message.tool_call_id)
    /\ ~Falsy(toolCall.id)
    /\ message.tool_call_id # toolCall.id

isClientTool(clientTools, toolCall) == toolCall.name \in clientTools

\* mutant: the wrapper delegates every call to the next handler
MutClientWrapToolCall(clientTools, toolCall, resume, handlerResult) == handlerResult

\* wrapToolCall of the middleware. resume = [given |-> has the interrupt been
\* resumed, isArray, toolMessages]; handlerResult is what handler(request) gives
clientWrapToolCall(clientTools, toolCall, resume, handlerResult) ==
    IF clientTools = {} THEN handlerResult
    ELSE IF ~isClientTool(clientTools, toolCall) THEN handlerResult
    ELSE IF ~resume.given THEN Interrupted(<<toolCall>>, FALSE)
    ELSE IF ~resume.isArray \/ Len(resume.toolMessages) # 1
    THEN Thrown("Invalid ClientToolResponse: toolMessages must be an array with exactly one item", FALSE)
    ELSE IF clientIdMismatch(resume.toolMessages[1], toolCall)
    THEN Thrown("Invalid ClientToolResponse: tool_call_id does not match", FALSE)
    ELSE toToolMessage(resume.toolMessages[1], toolCall)

(***************************************************************************)
(* ToolNode (tool_node.ts).                                                *)
(***************************************************************************)
\* what tool.invoke does is the tool's business: the outcomes the node tells apart
ToolOutcomes == {"raw", "toolMessage", "foreignToolMessage", "command", "throw", "interrupt"}

\* a tool_call_id of no call of the run
ForeignId == "zz"

\* the tools of the client-tool middleware are stubs that return '' (part_003:275-284)
ToolOutcomesFor(clientTools, call) ==
    IF call.name \in clientTools THEN {"raw"} ELSE ToolOutcomes

\* defaultHandler: tool.invoke and the conversion of its output
defaultHandler(toolName, toolCall, outcome) ==
    CASE outcome = "raw" ->
            Returned(ToolMessage(<<"output">>, toolName, toolCall.id, Undef), TRUE)
      [] outcome = "toolMessage" ->
            Returned(ToolMessage(<<"output">>, toolName, toolCall.id, "success"), TRUE)
      [] outcome = "foreignToolMessage" ->
            Returned(ToolMessage(<<"output">>, toolName, ForeignId, "success"), TRUE)
      [] outcome = "command" ->
            ReturnedCommand(ToolMessage(<<"output">>, toolName, toolCall.id, "success"), TRUE)
      [] outcome = "throw" -> Thrown("tool failed", TRUE)
      [] outcome = "interrupt" -> Interrupted(<<toolCall>>, TRUE)

\* the ToolMessage of the catch block
errorToolMessage(call, error) ==
    ToolMessage(<<"Error: ", error, "\n Please fix your mistakes.">>, call.name,
                IF call.id = Undef THEN "" ELSE call.id, Undef)

\* mutant: the catch block without the isGraphInterrupt test
MutCatchToolError(handleToolErrors, call, thrown) ==
    IF ~handleToolErrors
    THEN [kind |-> IF thrown.kind = "interrupt" THEN "interrupt" ELSE "throw",
          channel |-> << >>, global |-> << >>, events |-> << >>,
          payload |-> thrown.payload, invoked |-> thrown.invoked]
    ELSE [kind |-> "return",
          channel |-> <<errorToolMessage(call, "interrupt")>>,
          global |-> <<errorToolMessage(call, "interrupt")>>,
          events |-> <<[event |-> "on_tool_error", toolCall |-> call]>>,
          payload |-> << >>, invoked |-> thrown.invoked]

\* the catch block: rethrow, or on_tool_error and a Command with the error message
catchToolError(handleToolErrors, call, thrown) ==
    IF ~handleToolErrors
    THEN [kind |-> IF thrown.kind = "interrupt" THEN "interrupt" ELSE "throw",
          channel |-> << >>, global |-> << >>, events |-> << >>,
          payload |-> thrown.payload, invoked |-> thrown.invoked]
    ELSE IF thrown.kind = "interrupt"
    THEN [kind |-> "interrupt", channel |-> << >>, global |-> << >>, events |-> << >>,
          payload |-> thrown.payload, invoked |-> thrown.invoked]
    ELSE [kind |-> "return",
          channel |-> <<errorToolMessage(call, thrown.error)>>,
          global |-> <<errorToolMessage(call, thrown.error)>>,
          events |-> <<[event |-> "on_tool_error", toolCall |-> call]>>,
          payload |-> << >>, invoked |-> thrown.invoked]

\* ToolNode.run for the tool call of one Send: the update of the caller's agent
\* channel (channel) and of the messages channel (global), or what is thrown.
\* tools: the names of the node's tools; wrap: is wrapToolCall set
ToolNodeRun(tools, handleToolErrors, clientTools, wrap, call, resume, outcome) ==
    IF call.name \notin tools
    THEN catchToolError(handleToolErrors, call, Thrown("Tool not found.", FALSE))
    ELSE LET handlerResult == defaultHandler(call.name, call, outcome)
             output == IF wrap
                       THEN clientWrapToolCall(clientTools, call, resume, handlerResult)
                       ELSE handlerResult
         IN  IF output.kind # "value"
             THEN catchToolError(handleToolErrors, call, output)
             ELSE [kind |-> "return", channel |-> <<output.value>>, global |-> <<output.value>>,
                   events |-> << >>, payload |-> << >>, invoked |-> output.invoked]

(***************************************************************************)
(* createAgentNavigator (subgraph.handler.ts).                             *)
(***************************************************************************)
END == "__end__"

Send(node, toolCall) == [node |-> node, toolCall |-> toolCall]

\* the router's answer: one node name, or a list of Send
RouteTo(node) == [node |-> node, sends |-> << >>]

RouteSends(sends) == [node |-> Undef, sends |-> sends]

\* mutant: only the first tool call of the AI message gets a Send
MutAgentNavigator(nav, msgs, title, error) ==
    IF msgs # << >> /\ isAIMessage(Last(msgs)) /\ Last(msgs).tool_calls # << >>
    THEN RouteSends(<<Send(Last(msgs).tool_calls[1].name, Last(msgs).tool_calls[1])>>)
    ELSE IF nav.exitNode # Undef THEN RouteTo(nav.exitNode)
    ELSE IF nav.nextNodes # << >>
    THEN RouteSends([i \in 1..Len(nav.nextNodes) |-> Send(nav.nextNodes[i], NoToolCall)])
    ELSE RouteTo(END)

\* nav = [exitNode, nextNodes, fail, summarize, summarizeTitle]; title and error
\* are state.title and the agent channel's error
AgentNavigator(nav, msgs, title, error) ==
    LET lastMessage == IF msgs = << >> THEN NoMessage ELSE Last(msgs)
        summary == IF nav.summarize.enabled /\ Len(msgs) > nav.summarize.maxMessages
                   THEN <<Send("summarize_conversation", NoToolCall)>>
                   ELSE IF title = Undef /\ nav.summarizeTitle
                   THEN <<Send("title_conversation", NoToolCall)>>
                   ELSE << >>
        nexts == summary \o
                 (IF error = Undef
                  THEN [i \in 1..Len(nav.nextNodes) |-> Send(nav.nextNodes[i], NoToolCall)]
                  ELSE << >>)
    IN  IF msgs # << >> /\ isAIMessage(lastMessage)
        THEN IF lastMessage.tool_calls = << >>
             THEN IF nav.exitNode # Undef THEN RouteTo(nav.exitNode)
                  ELSE IF nexts # << >>
                  THEN RouteSends(IF error # Undef /\ nav.fail # Undef
                                  THEN Append(nexts, Send(nav.fail, NoToolCall))
                                  ELSE nexts)
                  ELSE IF error # Undef /\ nav.fail # Undef THEN RouteTo(nav.fail)
                  ELSE RouteTo(END)
             ELSE RouteSends([i \in 1..Len(lastMessage.tool_calls) |->
                                Send(lastMessage.tool_calls[i].name, lastMessage.tool_calls[i])])
        ELSE IF nav.exitNode # Undef THEN RouteTo(nav.exitNode)
        ELSE IF nav.nextNodes # << >>
        THEN RouteSends([i \in 1..Len(nav.nextNodes) |-> Send(nav.nextNodes[i], NoToolCall)])
        ELSE RouteTo(END)

(***************************************************************************)
(* The agent loop: state.                                                  *)
(***************************************************************************)
VARIABLES
    cfg,        \* the agent's configuration, fixed when the graph is compiled
    pc,         \* the node the run is at
    turn,       \* model calls made so far
    issued,     \* tool calls emitted by the model so far
    messages,   \* messages of the agent's channel
    sends,      \* the Sends of the current step that have not run yet
    writes,     \* channel writes of the current step, applied when the step ends
    jumpTo,     \* config.jumpTo as set by the last hook node
    interrupt,  \* the pending interrupt
    invoked,    \* tool calls handed to tool.invoke
    events,     \* custom events dispatched by tool nodes
    last,       \* the last operation and its input
    consumed,   \* the resume payloads the thread's interrupts have taken
    replay,     \* the thread as it was when a payload was resumed again
    decided,    \* the decisions the HITL hook has applied, each with the id and name of its tool call
    rpc,        \* where the pipeline of XpertAgentInvokeHandler.execute is
    subscribed, \* the client is subscribed to the result stream
    streamed,   \* events the graph stream has produced
    tasks,      \* state.tasks of the thread when the graph stream has ended
    emitted,    \* what was handed to the subscriber, in order
    aborted,    \* abortController.signal.aborted
    execution,  \* the run's execution record
    ending,     \* how the result stream ended for its subscriber
    rerror,     \* the error caught from the graph stream or thrown by the final work
    unsub,      \* where the unsubscribe callback is
    steps,      \* steps the graph has made in this run
    agentConfig, \* team.agentConfig, as far as the runner reads it
    running,    \* nodes of the current step that have not returned yet
    store,      \* writes the run has made to the channel store
    storeAtAbort, \* store when the run's abort signal fired
    lateReturns, \* nodes that returned after the run's abort signal fired
    toolsets,   \* the toolsets opened while each subgraph of the run was compiled
    closeCalls, \* calls of close() on each toolset
    command,    \* options.command of the invocation
    rejectFlag, \* options.reject of the invocation
    checkpoint, \* the thread's channel values when the invocation arrives
    values,     \* the thread's channel values
    graphInput, \* the input handed to graph.streamEvents
    rsPc,       \* where the invocation is before the graph streams
    compiled,   \* what createAgentSubgraph compiles the agent's graph from
    superstep,  \* nodes of the compiled graph that run in the current step
    pending,    \* nodes that run in the next step
    subState,   \* the agent's channel and state.title in the compiled graph's run
    modelCalls, \* model calls of the compiled graph's run
    wrapTrace,  \* the wrapModelCall handlers the last model request went through
    hookRuns,   \* afterModel hooks run since the last model call
    routed,     \* the last answer of a conditional router
    handoff,    \* the node that ran last in the compiled graph and the nodes its edges name
    thrown,     \* the exception that left a node of the compiled graph and failed the run
    selRequest, \* the model request handed to the tool selector's wrapModelCall
    selOptions, \* the options the tool selector middleware was created with
    selection,  \* what prepareSelectionRequest returned
    selResponse, \* the structured answer of the selection model
    handlerCalls, \* the tools of the requests handed to the inner model handler
    selPc,      \* where the tool selector's wrapModelCall is
    selContext, \* runtime.context of the model request at the tool selector
    cmpInput,   \* what the graph of an agent is compiled from: its tools, the team's agentConfig, its middlewares
    cmpGraph,   \* the compiled graph: its tool nodes, interruptBefore and channels
    cmpPc,      \* where the compilation and the run of the compiled graph are
    cmpSent,    \* the tool node the router of the run has sent a tool call to
    cmpResumed, \* the run has paused before the tool node it is at and been resumed
    cmpExecuted, \* the tool nodes the run has executed, each with whether the run had paused before it
    thConversations, \* the rows of the conversation table
    thRequests, \* the POST /threads requests: input, position in ThreadCreateHandler.execute, conversation, outcome
    saInvocations, \* the invocations of a sub-agent's node: caller, position, outcome of graph.invoke, execution row
    saExecutions, \* the execution rows the sub-agent's invocations have written
    saEvents, \* the agent events handed to the subscriber, in order
    muMute, \* team.agentConfig.mute of the run
    muUnmutes, \* the unmutes list handed to createMapStreamEvents
    muPc, \* where the run is: before or after the unmutes are computed
    muEmitted, \* the nodes whose stream events were handed to the subscriber
    muDropped, \* the nodes whose stream events were dropped
    wrMiddlewares, \* agentMiddlewares with their wrapModelCall and wrapToolCall hooks
    wrModelTrace, \* the handlers a model request went through, outermost first
    wrToolTrace, \* the handlers a tool call went through, outermost first
    toOutput, \* what the wrapped handler of a tool node returned or threw, and the node's options
    toUpdate, \* the update the tool node returns for its tool call
    toChannel, \* the messages the step appended to the caller's agent channel
    toGlobal, \* the messages the step appended to the messages channel
    toPc \* where the tool node's step is

agentVars == <<cfg, pc, turn, issued, messages, sends, writes, jumpTo, interrupt, invoked, events, last,
              consumed, replay, decided>>

runnerVars == <<rpc, subscribed, streamed, tasks, emitted, aborted, execution, ending, rerror, unsub,
               steps, agentConfig, running, store, storeAtAbort, lateReturns, toolsets,
               closeCalls>>

resumeVars == <<command, rejectFlag, checkpoint, values, graphInput, rsPc>>

graphVars == <<compiled, superstep, pending, subState, modelCalls, wrapTrace, hookRuns, routed,
              handoff, thrown>>

selectorVars == <<selRequest, selOptions, selection, selResponse, handlerCalls, selPc,
                 selContext>>

compileVars == <<cmpInput, cmpGraph, cmpPc, cmpSent, cmpResumed, cmpExecuted>>

coreVars == <<agentVars, runnerVars, resumeVars, graphVars, selectorVars>>

threadVars == <<thConversations, thRequests>>

subAgentVars == <<saInvocations, saExecutions, saEvents>>

muteVars == <<muMute, muUnmutes, muPc, muEmitted, muDropped>>

wrapVars == <<wrMiddlewares, wrModelTrace, wrToolTrace>>

toolOutputVars == <<toOutput, toUpdate, toChannel, toGlobal, toPc>>

auxVars == <<compileVars, threadVars, subAgentVars, muteVars, wrapVars, toolOutputVars>>

\* everything but the variables of the compilation
exceptCompile == <<coreVars, threadVars, subAgentVars, muteVars, wrapVars, toolOutputVars>>

\* everything but the variables of the thread requests
exceptThread == <<coreVars, compileVars, subAgentVars, muteVars, wrapVars, toolOutputVars>>

\* everything but the variables of this group
exceptSubAgent == <<coreVars, compileVars, threadVars, muteVars, wrapVars, toolOutputVars>>

\* everything but the variables of this group
exceptMute == <<coreVars, compileVars, threadVars, subAgentVars, wrapVars, toolOutputVars>>

\* everything but the variables of this group
exceptWrap == <<coreVars, compileVars, threadVars, subAgentVars, muteVars, toolOutputVars>>

\* everything but the variables of this group
exceptToolOutput == <<coreVars, compileVars, threadVars, subAgentVars, muteVars, wrapVars>>

vars == <<coreVars, auxVars>>

\* the execution record of a run that has been created and not finished
RunningExecution == [status |-> "running", error |-> Undef]

\* agentConfig without a recursionLimit
DefaultAgentConfig == [hasRecursionLimit |-> FALSE, recursionLimit |-> 0]

\* the graph of the run's agent and the graph of a sub agent nested in it
Subgraphs == {"agent", "helper"}

NoToolsets == [g \in Subgraphs |-> {}]

\* no run is being streamed
RunnerIdle ==
    /\ rpc = "idle"
    /\ subscribed = FALSE
    /\ streamed = 0
    /\ tasks = << >>
    /\ emitted = << >>
    /\ aborted = FALSE
    /\ execution = RunningExecution
    /\ ending = "open"
    /\ rerror = Undef
    /\ unsub = "none"
    /\ steps = 0
    /\ agentConfig = DefaultAgentConfig
    /\ running = {}
    /\ store = 0
    /\ storeAtAbort = 0
    /\ lateReturns = 0
    /\ toolsets = NoToolsets
    /\ closeCalls = << >>

\* command.update when the command carries none
NoUpdate == [given |-> FALSE, title |-> Undef]

\* options.command when the invocation carries none
NoCommand == [given |-> FALSE, resume |-> Undef, update |-> NoUpdate, toolCalls |-> << >>]

\* graphInput = null
NullInput == [kind |-> "null", resume |-> Undef, update |-> NoUpdate]

\* channel values of a thread that has no checkpoint
NoThread == [messages |-> << >>, title |-> Undef]

\* no invocation is being prepared
ResumeIdle ==
    /\ command = NoCommand
    /\ rejectFlag = FALSE
    /\ checkpoint = NoThread
    /\ values = NoThread
    /\ graphInput = NullInput
    /\ rsPc = "idle"

\* no conditional router has answered
NoRoute == [source |-> Undef, hasPathMap |-> FALSE, pathMap |-> {}, destinations |-> {},
            state |-> [messages |-> << >>, error |-> Undef, title |-> Undef, writer |-> Undef],
            hookRuns |-> << >>]

\* createAgentSubgraph without middlewares, tools, next and fail nodes
NoGraph == [isStart |-> FALSE, summarizeTitle |-> FALSE,
            summarize |-> [enabled |-> FALSE, maxMessages |-> 100], failBranch |-> FALSE,
            tools |-> {}, subAgents |-> {}, endNodes |-> {}, next |-> << >>, fail |-> << >>,
            middlewares |-> << >>]

\* no node of the compiled graph has run
NoHandoff == [from |-> Undef, to |-> {}]

\* no compiled graph is running
GraphIdle ==
    /\ compiled = NoGraph
    /\ superstep = {}
    /\ pending = {}
    /\ subState = [messages |-> << >>, error |-> Undef, title |-> Undef, writer |-> Undef]
    /\ modelCalls = 0
    /\ wrapTrace = << >>
    /\ hookRuns = << >>
    /\ routed = NoRoute
    /\ handoff = NoHandoff
    /\ thrown = Undef

\* prepareSelectionRequest has not run
NoSelection == [kind |-> "none", availableTools |-> << >>, validToolNames |-> << >>,
                error |-> Undef]

\* the selection model has not answered
NoResponse == [hasTools |-> FALSE, tools |-> << >>]

\* no model request is at the tool selector
SelectorIdle ==
    /\ selRequest = [tools |-> << >>, messages |-> << >>]
    /\ selOptions = [maxTools |-> {}, alwaysInclude |-> {}]
    /\ selection = NoSelection
    /\ selResponse = NoResponse
    /\ handlerCalls = << >>
    /\ selPc = "idle"
    /\ selContext = [maxTools |-> {}, alwaysInclude |-> {}]

\* nothing has been compiled
NoCompileInput == [tools |-> {}, interruptBefore |-> {}, availableTools |-> {}, middlewares |-> << >>]

\* no graph is being compiled
CompileIdle ==
    /\ cmpInput = NoCompileInput
    /\ cmpGraph = [tools |-> {}, interruptBefore |-> {}, channels |-> {}]
    /\ cmpPc = "idle"
    /\ cmpSent = Undef
    /\ cmpResumed = FALSE
    /\ cmpExecuted = {}

\* no thread is being created
ThreadIdle ==
    /\ thConversations = << >>
    /\ thRequests = << >>

\* no sub-agent has been invoked
SubAgentIdle ==
    /\ saInvocations = << >>
    /\ saExecutions = << >>
    /\ saEvents = << >>

\* no mute list is being evaluated
MuteIdle ==
    /\ muMute = << >>
    /\ muUnmutes = << >>
    /\ muPc = "idle"
    /\ muEmitted = {}
    /\ muDropped = {}

\* no request is going through the middlewares' wrappers
WrapIdle ==
    /\ wrMiddlewares = << >>
    /\ wrModelTrace = << >>
    /\ wrToolTrace = << >>

\* no tool output is being normalised
ToolOutputIdle ==
    /\ toOutput = [kind |-> "none", object |-> {}, array |-> << >>, hasVariables |-> FALSE,
                   handleToolErrors |-> TRUE]
    /\ toUpdate = << >>
    /\ toChannel = << >>
    /\ toGlobal = << >>
    /\ toPc = "idle"

AuxIdle == CompileIdle /\ ThreadIdle /\ SubAgentIdle /\ MuteIdle /\ WrapIdle /\ ToolOutputIdle

IdTable == <<"t1", "t2", "t3", "t4", "t5", "t6", "t7", "t8", "t9", "t10", "t11", "t12">>

AIIdTable == <<"ai1", "ai2", "ai3", "ai4", "ai5", "ai6">>

NoInterrupt == [type |-> "none", payload |-> << >>]

NoResume == [given |-> FALSE, isArray |-> FALSE, toolMessages |-> << >>]

NoOp == [op |-> "none"]

\* no payload has been resumed twice
NoReplay == [active |-> FALSE, wellFormed |-> FALSE, messages |-> << >>, writes |-> << >>,
             invoked |-> {}, turn |-> 0]

\* the thread before a resume, kept when its payload was consumed before
Replayed(payload) ==
    IF payload \in consumed
    THEN [active |-> TRUE, wellFormed |-> payload.isArray, messages |-> messages, writes |-> writes,
          invoked |-> invoked, turn |-> turn]
    ELSE NoReplay

\* interruptOn as configured on the HITL middleware
InterruptOnOptions ==
    { [set |-> FALSE, map |-> << >>],
      [set |-> TRUE, map |-> [n \in {"delete"} |-> BoolConfig(TRUE)]],
      [set |-> TRUE, map |-> [n \in {"delete", "search"} |->
            IF n = "delete" THEN InterruptOnConfig({"approve", "reject"}) ELSE BoolConfig(FALSE)]] }

\* what follows the agent: nothing (END), an afterAgent hook, or a next node
NavOptions ==
    { [exitNode |-> e, nextNodes |-> << >>, fail |-> Undef,
       summarize |-> [enabled |-> FALSE, maxMessages |-> 100], summarizeTitle |-> FALSE] :
      e \in {Undef, "hitl_after_agent"} }
    \cup
    { [exitNode |-> Undef, nextNodes |-> <<"next_node">>, fail |-> Undef,
       summarize |-> [enabled |-> FALSE, maxMessages |-> 100], summarizeTitle |-> FALSE] }

BaseNav == CHOOSE n \in NavOptions : n.exitNode = Undef /\ n.nextNodes = << >>

BaseInterruptOn == CHOOSE o \in InterruptOnOptions : o.set /\ DOMAIN o.map = {"delete"}

\* the configurations explored: every option of the HITL middleware and of the
\* navigator with the default tool nodes, and every option of the tool nodes
\* with one HITL configuration
Configs ==
    [interruptOn : InterruptOnOptions,
     clientTools : {{"browser"}},
     handleToolErrors : {TRUE},
     nav : NavOptions,
     providerIds : {TRUE}]
    \cup
    [interruptOn : {BaseInterruptOn},
     clientTools : {{}, {"browser"}},
     handleToolErrors : BOOLEAN,
     nav : {BaseNav},
     providerIds : BOOLEAN]

\* the tool calls a model answer may carry when n calls were emitted before
ModelToolCalls(n, providerIds) ==
    { [i \in 1..Len(names) |->
          ToolCall(IF providerIds THEN IdTable[n + i] ELSE Undef, names[i], "args")] :
      names \in SeqsUpTo(ToolNames, MaxCalls - n) }

\* what a reviewer may answer to a HITL interrupt
Decisions ==
    { Decision("approve", NoAction, Undef),
      Decision("edit", [name |-> "search", args |-> "edited"], Undef),
      Decision("edit", NoAction, Undef),
      Decision("reject", NoAction, Undef),
      Decision("reject", NoAction, "nope") }

\* the answers to an interrupt for k tool calls: too few, as many, one too many decisions
HITLResponses(k) ==
    {[isArray |-> FALSE, decisions |-> << >>]}
    \cup {[isArray |-> TRUE, decisions |-> d] : d \in SeqsUpTo(Decisions, k + 1)}

\* what a client may answer to a client-tool interrupt for the call with id id
ClientToolResponses(id) ==
    LET items == {ClientToolMessageInput(i, "ok", Undef, "success") : i \in {Undef, id, ForeignId}}
    IN  {[given |-> TRUE, isArray |-> FALSE, toolMessages |-> << >>]}
        \cup {[given |-> TRUE, isArray |-> TRUE, toolMessages |-> m] : m \in SeqsUpTo(items, 2)}

AgentStart(configs) ==
    /\ cfg \in configs
    /\ pc = "model"
    /\ turn = 0
    /\ issued = 0
    /\ messages = << >>
    /\ sends = << >>
    /\ writes = << >>
    /\ jumpTo = Undef
    /\ interrupt = NoInterrupt
    /\ invoked = {}
    /\ events = << >>
    /\ last = NoOp
    /\ consumed = {}
    /\ replay = NoReplay
    /\ decided = {}

Init == AgentStart(Configs) /\ RunnerIdle /\ ResumeIdle /\ GraphIdle /\ SelectorIdle /\ AuxIdle

(***************************************************************************)
(* The agent loop: nodes.                                                  *)
(***************************************************************************)
\* stateModifier: a new human input, unless the model is re-entered after a tool result
humanMessages(msgs, isStart) ==
    IF isStart \/ msgs = << >> \/ ~isToolMessage(Last(msgs))
    THEN <<HumanMessage(Undef)>>
    ELSE << >>

\* callModel: the model answers with an AI message, written to the agent's channel
CallModel ==
    /\ pc = "model"
    /\ \E calls \in ModelToolCalls(issued, cfg.providerIds) :
          /\ messages' = messagesStateReducer(messages,
                             humanMessages(messages, turn = 0)
                                 \o <<AIMessage(AIIdTable[turn + 1], calls)>>)
          /\ issued' = issued + Len(calls)
    /\ turn' = turn + 1
    /\ pc' = "afterModel"
    /\ jumpTo' = Undef
    /\ last' = [op |-> "CallModel"]
    /\ UNCHANGED <<cfg, sends, writes, interrupt, invoked, events>>
    /\ UNCHANGED <<consumed, replay, decided>>
    /\ UNCHANGED runnerVars
    /\ UNCHANGED resumeVars
    /\ UNCHANGED selectorVars
    /\ UNCHANGED auxVars
    /\ UNCHANGED graphVars

\* createAfterModelNode around the HITL hook, first execution: the hook returns
\* nothing or raises its interrupt
AfterModel ==
    /\ pc = "afterModel"
    /\ IF hitlInterrupts(messages, cfg.interruptOn)
       THEN /\ pc' = "interrupted"
            /\ interrupt' = [type |-> "hitl", payload |-> actionRequests(messages, cfg.interruptOn)]
       ELSE /\ pc' = "router"
            /\ interrupt' = interrupt
    /\ last' = [op |-> "AfterModel"]
    /\ UNCHANGED <<cfg, turn, issued, messages, sends, writes, jumpTo, invoked, events>>
    /\ UNCHANGED <<consumed, replay, decided>>
    /\ UNCHANGED runnerVars
    /\ UNCHANGED resumeVars
    /\ UNCHANGED selectorVars
    /\ UNCHANGED auxVars
    /\ UNCHANGED graphVars

\* resume of the HITL interrupt: the node runs again and interrupt() returns the response
HitlResume ==
    /\ pc = "interrupted"
    /\ interrupt.type = "hitl"
    /\ \E response \in HITLResponses(Len(interrupt.payload)) :
          LET result == hitlAfterResume(messages, cfg.interruptOn, response)
          IN  /\ IF result.ok
                 THEN /\ messages' = messagesStateReducer(messages, result.messages)
                      /\ jumpTo' = result.jumpTo
                      /\ pc' = "router"
                 ELSE /\ pc' = "failed"
                      /\ UNCHANGED <<messages, jumpTo>>
              /\ last' = [op |-> "HitlResume", response |-> response, before |-> messages,
                          k |-> Len(interrupt.payload)]
              /\ consumed' = consumed \cup {response}
              /\ replay' = Replayed(response)
              /\ decided' = IF result.ok
                            THEN decided \cup appliedDecisions(messages, cfg.interruptOn, response)
                            ELSE decided
    /\ interrupt' = NoInterrupt
    /\ UNCHANGED <<cfg, turn, issued, sends, writes, invoked, events>>
    /\ UNCHANGED runnerVars
    /\ UNCHANGED resumeVars
    /\ UNCHANGED selectorVars
    /\ UNCHANGED auxVars
    /\ UNCHANGED graphVars

\* the conditional edge out of the last afterModel node
Router ==
    /\ pc = "router"
    /\ LET r == AgentNavigator(cfg.nav, messages, Undef, Undef)
       IN  IF r.node # Undef
           THEN /\ pc' = r.node
                /\ sends' = << >>
           ELSE IF r.sends[1].toolCall = NoToolCall
           THEN /\ pc' = "next"
                /\ sends' = << >>
           ELSE /\ pc' = "tools"
                /\ sends' = r.sends
    /\ last' = [op |-> "Router", jumpTo |-> jumpTo]
    /\ UNCHANGED <<cfg, turn, issued, messages, writes, jumpTo, interrupt, invoked, events>>
    /\ UNCHANGED <<consumed, replay, decided>>
    /\ UNCHANGED runnerVars
    /\ UNCHANGED resumeVars
    /\ UNCHANGED selectorVars
    /\ UNCHANGED auxVars
    /\ UNCHANGED graphVars

\* the effect of one run of a tool node on the step
ToolNodeEffect(send, result) ==
    /\ invoked' = IF result.invoked THEN invoked \cup {send.toolCall} ELSE invoked
    /\ events' = events \o result.events
    /\ CASE result.kind = "return" ->
                /\ writes' = writes \o result.channel
                /\ sends' = Tail(sends)
                /\ pc' = "tools"
                /\ interrupt' = NoInterrupt
         [] result.kind = "throw" ->
                /\ pc' = "failed"
                /\ interrupt' = NoInterrupt
                /\ UNCHANGED <<writes, sends>>
         [] result.kind = "interrupt" ->
                /\ pc' = "interrupted"
                /\ interrupt' = [type |-> "tool", payload |-> result.payload]
                /\ UNCHANGED <<writes, sends>>

\* a tool node runs the tool call of its Send
ToolNodeStep ==
    /\ pc = "tools"
    /\ sends # << >>
    /\ \E outcome \in ToolOutcomesFor(cfg.clientTools, Head(sends).toolCall) :
          /\ ToolNodeEffect(Head(sends),
                ToolNodeRun({Head(sends).node}, cfg.handleToolErrors, cfg.clientTools, TRUE,
                            Head(sends).toolCall, NoResume, outcome))
          /\ last' = [op |-> "ToolNode", call |-> Head(sends).toolCall, resume |-> NoResume,
                      outcome |-> outcome, nWrites |-> Len(writes), nEvents |-> Len(events)]
    /\ UNCHANGED <<cfg, turn, issued, messages, jumpTo>>
    /\ UNCHANGED <<consumed, replay, decided>>
    /\ UNCHANGED runnerVars
    /\ UNCHANGED resumeVars
    /\ UNCHANGED selectorVars
    /\ UNCHANGED auxVars
    /\ UNCHANGED graphVars

\* resume of a client-tool interrupt: the tool node runs again, and interrupt()
\* returns the ClientToolResponse
ClientToolResume ==
    /\ pc = "interrupted"
    /\ interrupt.type = "tool"
    /\ Head(sends).toolCall.name \in cfg.clientTools
    /\ \E resume \in ClientToolResponses(Head(sends).toolCall.id) :
          /\ ToolNodeEffect(Head(sends),
                ToolNodeRun({Head(sends).node}, cfg.handleToolErrors, cfg.clientTools, TRUE,
                            Head(sends).toolCall, resume, "raw"))
          /\ last' = [op |-> "ClientToolResume", call |-> Head(sends).toolCall, resume |-> resume,
                      outcome |-> "raw", nWrites |-> Len(writes), nEvents |-> Len(events)]
          /\ consumed' = consumed \cup {resume}
          /\ replay' = Replayed(resume)
          /\ UNCHANGED decided
    /\ UNCHANGED <<cfg, turn, issued, messages, jumpTo>>
    /\ UNCHANGED runnerVars
    /\ UNCHANGED resumeVars
    /\ UNCHANGED selectorVars
    /\ UNCHANGED auxVars
    /\ UNCHANGED graphVars

\* resume of an interrupt raised by a tool itself: the tool node runs again
ToolResume ==
    /\ pc = "interrupted"
    /\ interrupt.type = "tool"
    /\ Head(sends).toolCall.name \notin cfg.clientTools
    /\ \E outcome \in ToolOutcomes :
          /\ ToolNodeEffect(Head(sends),
                ToolNodeRun({Head(sends).node}, cfg.handleToolErrors, cfg.clientTools, TRUE,
                            Head(sends).toolCall, [NoResume EXCEPT !.given = TRUE], outcome))
          /\ last' = [op |-> "ToolResume", call |-> Head(sends).toolCall, resume |-> NoResume,
                      outcome |-> outcome, nWrites |-> Len(writes), nEvents |-> Len(events)]
    /\ replay' = NoReplay
    /\ UNCHANGED <<consumed, decided>>
    /\ UNCHANGED <<cfg, turn, issued, messages, jumpTo>>
    /\ UNCHANGED runnerVars
    /\ UNCHANGED resumeVars
    /\ UNCHANGED selectorVars
    /\ UNCHANGED auxVars
    /\ UNCHANGED graphVars

\* the step of the tool nodes ends: its writes are applied and the edge back to
\* agentLoopEntry is taken
ToolsDone ==
    /\ pc = "tools"
    /\ sends = << >>
    /\ messages' = messagesStateReducer(messages, writes)
    /\ writes' = << >>
    /\ pc' = "model"
    /\ last' = [op |-> "ToolsDone"]
    /\ UNCHANGED <<cfg, turn, issued, sends, jumpTo, interrupt, invoked, events>>
    /\ UNCHANGED <<consumed, replay, decided>>
    /\ UNCHANGED runnerVars
    /\ UNCHANGED resumeVars
    /\ UNCHANGED selectorVars
    /\ UNCHANGED auxVars
    /\ UNCHANGED graphVars

Next ==
    \/ CallModel
    \/ AfterModel
    \/ HitlResume
    \/ Router
    \/ ToolNodeStep
    \/ ClientToolResume
    \/ ToolResume
    \/ ToolsDone

Spec == Init /\ [][Next]_vars

(***************************************************************************)
(* The runner: the result stream of XpertAgentInvokeHandler.execute.  The  *)
(* graph is seen through its event stream and the state it leaves behind.  *)
(***************************************************************************)
\* events the graph stream of one run produces at most
MaxEvents == 3

\* what createMapStreamEvents makes of a graph event: a content chunk, or null
MappedEvents == {"message", Undef}

\* state.tasks once the graph stream has completed
PendingTasks == {<< >>, <<"after_model">>, <<"search", "browser">>}

\* what the graph stream fails with
GraphErrors == {"GraphRecursionError", "Error"}

ON_INTERRUPT == "on_interrupt"

isNil(content) == content = Undef

\* filter((content) => !isNil(content)) in front of the subscriber
deliver(out, content) == IF isNil(content) THEN out ELSE Append(out, content)

\* catchError: a GraphRecursionError is replaced by the translated message
translateError(err) ==
    IF err = "GraphRecursionError" THEN "RecursionLimitReached" ELSE err

\* mutant: a single pending task is not seen
MutHasPendingTasks(t) == Len(t) > 1

\* state.tasks?.length
hasPendingTasks(t) == Len(t) > 0

\* the final async work that follows the graph stream
finalWork(t) ==
    IF hasPendingTasks(t)
    THEN [events |-> <<ON_INTERRUPT>>, throws |-> "NodeInterrupt", value |-> Undef]
    ELSE [events |-> << >>, throws |-> Undef, value |-> Undef]

\* mutant: the unsubscribe callback writes nothing
MutAbortedExecution(e) == e

\* the XpertAgentExecutionUpsertCommand of the unsubscribe callback
abortedExecution(e) == [e EXCEPT !.status = "error", !.error = "Aborted!"]

\* the default recursion limit, scaled down
AgentRecursionLimit == 3

\* the agentConfig of the team: no recursionLimit, or one of its own
AgentConfigs ==
    {DefaultAgentConfig} \cup
    {[hasRecursionLimit |-> TRUE, recursionLimit |-> n] : n \in 1..(AgentRecursionLimit - 1)}

\* mutant: the configured limit is not read
MutRecursionLimitOf(c) == AgentRecursionLimit

\* team.agentConfig?.recursionLimit ?? AgentRecursionLimit
recursionLimitOf(c) == IF c.hasRecursionLimit THEN c.recursionLimit ELSE AgentRecursionLimit

\* the nodes one step of the graph runs: the model call, a middleware hook, a
\* tool node, or a tool node and a sub agent that were sent to together
Supersteps == {{"model"}, {"hook"}, {"tool"}, {"tool", "sub_agent"}}

\* what ToolsetGetToolsCommand can give the two subgraphs
OpenedToolsets ==
    {[g \in Subgraphs |-> IF g = "agent" THEN own ELSE nested] :
        own \in {{}, {"ts1"}, {"ts1", "ts2"}}, nested \in {{}, {"ts3"}}}

\* the signal of the options a subgraph is compiled with: the run's signal
compiledSignal(g, runAborted) == runAborted

\* mutant: a nested subgraph's controller does not follow the run's signal
MutSubgraphAborted(g, signalAborted) == g = "agent" /\ signalAborted

\* the subgraph's abortController, aborted by the listener on options.signal
subgraphAborted(g, signalAborted) == signalAborted

\* mutant: the graph stream is not given the run's signal
MutGraphSignal(runAborted) == FALSE

\* the signal graph.streamEvents is given
graphSignal(runAborted) == runAborted

\* a client has subscribed to the result stream of a run
RunnerStart ==
    /\ rpc = "streaming"
    /\ subscribed = TRUE
    /\ streamed = 0
    /\ tasks = << >>
    /\ emitted = << >>
    /\ aborted = FALSE
    /\ execution = RunningExecution
    /\ ending = "open"
    /\ rerror = Undef
    /\ unsub = "none"
    /\ steps = 0
    /\ agentConfig \in AgentConfigs
    /\ running = {}
    /\ store = 0
    /\ storeAtAbort = 0
    /\ lateReturns = 0
    /\ toolsets \in OpenedToolsets
    /\ closeCalls = [t \in UNION {toolsets[g] : g \in Subgraphs} |-> 0]

InitRunner == AgentStart({CHOOSE c \in Configs : TRUE}) /\ RunnerStart /\ ResumeIdle /\ GraphIdle
              /\ SelectorIdle /\ AuxIdle

\* the graph's run goes on: its stream has neither ended nor failed, and the
\* signal it was given has not fired
GraphAlive == rpc \in {"streaming", "closed"} /\ ~graphSignal(aborted)

\* abortController.abort(): the first call fires the signal, the subgraphs'
\* controllers follow and their listeners close their toolsets
Abort ==
    /\ aborted' = TRUE
    /\ storeAtAbort' = IF aborted THEN storeAtAbort ELSE store
    /\ closeCalls' =
          [t \in DOMAIN closeCalls |->
             IF /\ ~aborted
                /\ \E g \in Subgraphs :
                      t \in toolsets[g] /\ subgraphAborted(g, compiledSignal(g, TRUE))
             THEN closeCalls[t] + 1
             ELSE closeCalls[t]]

\* the graph stream yields an event, mapped and filtered
StreamEvent ==
    /\ rpc = "streaming"
    /\ streamed < MaxEvents
    /\ \E e \in MappedEvents : emitted' = deliver(emitted, e)
    /\ streamed' = streamed + 1
    /\ UNCHANGED <<rpc, subscribed, tasks, aborted, execution, ending, rerror, unsub>>
    /\ UNCHANGED <<steps, agentConfig>>
    /\ UNCHANGED <<running, store, storeAtAbort, lateReturns, toolsets, closeCalls>>
    /\ UNCHANGED agentVars
    /\ UNCHANGED resumeVars
    /\ UNCHANGED selectorVars
    /\ UNCHANGED auxVars
    /\ UNCHANGED graphVars

\* the graph makes a step; streamEvents was given recursionLimit, and the
\* graph makes no step beyond it
GraphStep ==
    /\ GraphAlive
    /\ running = {}
    /\ steps < recursionLimitOf(agentConfig)
    /\ steps' = steps + 1
    /\ running' \in Supersteps
    /\ UNCHANGED <<rpc, subscribed, streamed, tasks, emitted, aborted, execution, ending, rerror, unsub,
                   agentConfig>>
    /\ UNCHANGED <<store, storeAtAbort, lateReturns, toolsets, closeCalls>>
    /\ UNCHANGED agentVars
    /\ UNCHANGED resumeVars
    /\ UNCHANGED selectorVars
    /\ UNCHANGED auxVars
    /\ UNCHANGED graphVars

\* a node of the current step returns; its update is written while the run
\* goes on
NodeReturn ==
    /\ \E node \in running : running' = running \ {node}
    /\ store' = IF GraphAlive THEN store + 1 ELSE store
    /\ lateReturns' = IF aborted THEN lateReturns + 1 ELSE lateReturns
    /\ UNCHANGED <<rpc, subscribed, streamed, tasks, emitted, aborted, execution, ending, rerror, unsub,
                   steps, agentConfig>>
    /\ UNCHANGED <<storeAtAbort, toolsets, closeCalls>>
    /\ UNCHANGED agentVars
    /\ UNCHANGED resumeVars
    /\ UNCHANGED selectorVars
    /\ UNCHANGED auxVars
    /\ UNCHANGED graphVars

\* the graph stream completes; concat moves on to the final work
StreamComplete ==
    /\ rpc = "streaming"
    /\ running = {}
    /\ \E t \in PendingTasks : tasks' = t
    /\ rpc' = "final"
    /\ UNCHANGED <<subscribed, streamed, emitted, aborted, execution, ending, rerror, unsub>>
    /\ UNCHANGED <<steps, agentConfig>>
    /\ UNCHANGED <<running, store, storeAtAbort, lateReturns, toolsets, closeCalls>>
    /\ UNCHANGED agentVars
    /\ UNCHANGED resumeVars
    /\ UNCHANGED selectorVars
    /\ UNCHANGED auxVars
    /\ UNCHANGED graphVars

\* the graph stream fails; catchError takes the error
StreamError ==
    /\ rpc = "streaming"
    /\ \E err \in GraphErrors :
          /\ err = "GraphRecursionError" => steps = recursionLimitOf(agentConfig)
          /\ rerror' = err
    /\ rpc' = "catching"
    /\ UNCHANGED <<subscribed, streamed, tasks, emitted, aborted, execution, ending, unsub>>
    /\ UNCHANGED <<steps, agentConfig>>
    /\ UNCHANGED <<running, store, storeAtAbort, lateReturns, toolsets, closeCalls>>
    /\ UNCHANGED agentVars
    /\ UNCHANGED resumeVars
    /\ UNCHANGED selectorVars
    /\ UNCHANGED auxVars
    /\ UNCHANGED graphVars

\* catchError has recorded the last state and rethrows; finalize aborts
CatchError ==
    /\ rpc = "catching"
    /\ rerror' = translateError(rerror)
    /\ rpc' = "failed"
    /\ ending' = IF subscribed THEN "error" ELSE ending
    /\ subscribed' = FALSE
    /\ Abort
    /\ UNCHANGED <<streamed, tasks, emitted, execution, unsub>>
    /\ UNCHANGED <<steps, agentConfig>>
    /\ UNCHANGED <<running, store, lateReturns, toolsets>>
    /\ UNCHANGED agentVars
    /\ UNCHANGED resumeVars
    /\ UNCHANGED selectorVars
    /\ UNCHANGED auxVars
    /\ UNCHANGED graphVars

\* the final work: on_interrupt and NodeInterrupt when tasks are pending, else
\* null, which the filter drops, and completion; finalize aborts
FinalWork ==
    /\ rpc = "final"
    /\ LET r == finalWork(tasks)
       IN  /\ emitted' = deliver(emitted \o r.events, r.value)
           /\ rerror' = r.throws
           /\ ending' = IF ~subscribed THEN ending
                         ELSE IF r.throws # Undef THEN "error" ELSE "complete"
    /\ rpc' = "finished"
    /\ subscribed' = FALSE
    /\ Abort
    /\ UNCHANGED <<streamed, tasks, execution, unsub>>
    /\ UNCHANGED <<steps, agentConfig>>
    /\ UNCHANGED <<running, store, lateReturns, toolsets>>
    /\ UNCHANGED agentVars
    /\ UNCHANGED resumeVars
    /\ UNCHANGED selectorVars
    /\ UNCHANGED auxVars
    /\ UNCHANGED graphVars

\* the client disconnects: the unsubscribe callback aborts and starts reading
\* the state, finalize aborts, and the graph stream is torn down
Unsubscribe ==
    /\ subscribed
    /\ subscribed' = FALSE
    /\ Abort
    /\ unsub' = "pending"
    /\ rpc' = IF rpc = "streaming" THEN "closed" ELSE rpc
    /\ UNCHANGED <<streamed, tasks, emitted, execution, ending, rerror>>
    /\ UNCHANGED <<steps, agentConfig>>
    /\ UNCHANGED <<running, store, lateReturns, toolsets>>
    /\ UNCHANGED agentVars
    /\ UNCHANGED resumeVars
    /\ UNCHANGED selectorVars
    /\ UNCHANGED auxVars
    /\ UNCHANGED graphVars

\* the rest of the unsubscribe callback: the upsert, or a failure that is caught
UnsubscribeRecord ==
    /\ unsub = "pending"
    /\ \E ok \in BOOLEAN :
          /\ execution' = IF ok THEN abortedExecution(execution) ELSE execution
          /\ unsub' = IF ok THEN "recorded" ELSE "dropped"
    /\ UNCHANGED <<rpc, subscribed, streamed, tasks, emitted, aborted, ending, rerror>>
    /\ UNCHANGED <<steps, agentConfig>>
    /\ UNCHANGED <<running, store, storeAtAbort, lateReturns, toolsets, closeCalls>>
    /\ UNCHANGED agentVars
    /\ UNCHANGED resumeVars
    /\ UNCHANGED selectorVars
    /\ UNCHANGED auxVars
    /\ UNCHANGED graphVars

NextRunner ==
    \/ StreamEvent
    \/ GraphStep
    \/ NodeReturn
    \/ StreamComplete
    \/ StreamError
    \/ CatchError
    \/ FinalWork
    \/ Unsubscribe
    \/ UnsubscribeRecord

SpecRunner == InitRunner /\ [][NextRunner]_vars

(***************************************************************************)
(* The invocation: how XpertAgentInvokeHandler.execute turns options.reject *)
(* and options.command into state updates and the input of the graph.      *)
(***************************************************************************)
\* entries of command.toolCalls at most
MaxToolCallUpdates == 2

\* args of the tool calls of the thread's AI message
ThreadArgs == {[path |-> "a"], [path |-> "a", force |-> "no"]}

\* args of the entries of command.toolCalls; hasArgs = FALSE is an entry without args
CommandArgs ==
    { [hasArgs |-> TRUE, args |-> [path |-> "b"]],
      [hasArgs |-> TRUE, args |-> [force |-> "yes"]],
      [hasArgs |-> FALSE, args |-> [path |-> "b"]] }

CommandToolCalls ==
    { [id |-> i, hasArgs |-> a.hasArgs, args |-> a.args] : i \in {"t1", "t2", "t9"}, a \in CommandArgs }

\* the commands an invocation may carry
Commands ==
    { [given |-> TRUE, resume |-> r, update |-> u, toolCalls |-> tc] :
        r \in {Undef, "", "go"},
        u \in {NoUpdate, [given |-> TRUE, title |-> "renamed"]},
        tc \in SeqsUpTo(CommandToolCalls, MaxToolCallUpdates) }

\* the threads an invocation may arrive on: interrupted after the model's
\* answer, or with a tool message last (stored with an id, or without)
Threads ==
    LET h == HumanMessage("h1")
        c1 == ToolCall("t1", "delete", [path |-> "a"])
        c2 == ToolCall("t2", "search", [path |-> "a", force |-> "no"])
        tm(id) == Message("tool", id, << >>, "t1", "delete", Undef, <<"done">>)
    IN  { [messages |-> m, title |-> "t0"] :
            m \in { <<h, AIMessage("ai1", <<c1>>)>>,
                    <<h, AIMessage("ai1", <<c1, c2>>)>>,
                    <<h, AIMessage("ai1", << >>)>>,
                    <<h, AIMessage("ai1", <<c1>>), tm("m3")>>,
                    <<h, AIMessage("ai1", <<c1>>), tm(Undef)>> } }

\* { ...toolCall.args, ...(newToolCall?.args ?? {}) }
mergeArgs(args, newToolCall) ==
    IF ~newToolCall.hasArgs THEN args
    ELSE [k \in DOMAIN args \cup DOMAIN newToolCall.args |->
            IF k \in DOMAIN newToolCall.args THEN newToolCall.args[k] ELSE args[k]]

\* mutant: the first entry of the command is taken for every tool call
MutFindToolCall(toolCalls, id) == IF Len(toolCalls) > 0 THEN 1 ELSE 0

\* command.toolCalls.find((call) => call.id === toolCall.id): its index, or 0
findToolCall(toolCalls, id) ==
    LET idx == {i \in 1..Len(toolCalls) : toolCalls[i].id = id}
    IN  IF idx = {} THEN 0 ELSE CHOOSE i \in idx : \A j \in idx : i <= j

\* updateToolCalls: the last message is written again under its id with the
\* merged args; it throws when the last message has an id and no tool_calls
updateToolCalls(vals, cmd) ==
    IF vals.messages = << >> THEN [ok |-> FALSE, values |-> vals]
    ELSE LET lastMessage == Last(vals.messages)
         IN  IF Falsy(lastMessage.id) THEN [ok |-> TRUE, values |-> vals]
             ELSE IF ~isAIMessage(lastMessage) THEN [ok |-> FALSE, values |-> vals]
             ELSE LET newCalls ==
                          [i \in 1..Len(lastMessage.tool_calls) |->
                              LET toolCall == lastMessage.tool_calls[i]
                                  n == findToolCall(cmd.toolCalls, toolCall.id)
                              IN  IF n = 0 THEN toolCall
                                  ELSE [toolCall EXCEPT !.args = mergeArgs(toolCall.args, cmd.toolCalls[n])]]
                      newMessage == Message("ai", lastMessage.id, newCalls, Undef, Undef, Undef,
                                            lastMessage.content)
                  IN  [ok |-> TRUE,
                       values |-> [vals EXCEPT !.messages = messagesStateReducer(vals.messages, <<newMessage>>)]]

\* reject: one "Reject by user" ToolMessage for every tool call of a last AI message
rejectToolCalls(vals) ==
    IF vals.messages = << >> \/ ~isAIMessage(Last(vals.messages)) THEN vals
    ELSE LET calls == Last(vals.messages).tool_calls
         IN  [vals EXCEPT !.messages = messagesStateReducer(vals.messages,
                 [i \in 1..Len(calls) |->
                     ToolMessage(<<"Error: Reject by user">>, calls[i].name, calls[i].id, Undef)])]

\* new Command(pick(options.command, 'resume', 'update'))
resumeInput(cmd) == [kind |-> "command", resume |-> cmd.resume, update |-> cmd.update]

\* graphInput as execute computes it
makeGraphInput(isReject, cmd) ==
    IF isReject THEN NullInput
    ELSE IF cmd.given
    THEN IF Falsy(cmd.resume) THEN NullInput ELSE resumeInput(cmd)
    ELSE [kind |-> "input", resume |-> Undef, update |-> NoUpdate]

\* what the graph does with its input before the first step: the update of a
\* Command is written to the channels
applyInput(vals, input) ==
    IF input.kind = "command" /\ input.update.given
    THEN [vals EXCEPT !.title = input.update.title]
    ELSE vals

\* an invocation arrives: a new run, a resume command, or a reject
InitResume ==
    /\ AgentStart({CHOOSE c \in Configs : TRUE})
    /\ AuxIdle
    /\ RunnerIdle
    /\ SelectorIdle
    /\ GraphIdle
    /\ \/ command \in Commands /\ rejectFlag \in BOOLEAN
       \/ command = NoCommand /\ rejectFlag = FALSE
    /\ checkpoint \in Threads
    /\ values = checkpoint
    /\ graphInput = NullInput
    /\ rsPc = "received"

\* execute up to the graph input: reject, or updateToolCalls and the Command
PrepareInput ==
    /\ rsPc = "received"
    /\ LET updated == IF ~rejectFlag /\ command.given /\ Len(command.toolCalls) > 0
                      THEN updateToolCalls(values, command)
                      ELSE [ok |-> TRUE, values |-> values]
       IN  IF rejectFlag
           THEN /\ values' = rejectToolCalls(values)
                /\ graphInput' = makeGraphInput(rejectFlag, command)
                /\ rsPc' = "prepared"
           ELSE IF updated.ok
           THEN /\ values' = updated.values
                /\ graphInput' = makeGraphInput(rejectFlag, command)
                /\ rsPc' = "prepared"
           ELSE /\ rsPc' = "failed"
                /\ UNCHANGED <<values, graphInput>>
    /\ UNCHANGED <<command, rejectFlag, checkpoint>>
    /\ UNCHANGED agentVars
    /\ UNCHANGED runnerVars
    /\ UNCHANGED graphVars
    /\ UNCHANGED selectorVars
    /\ UNCHANGED auxVars

\* graph.streamEvents(graphInput): the graph takes its input and goes on from
\* the checkpoint
StartGraph ==
    /\ rsPc = "prepared"
    /\ values' = applyInput(values, graphInput)
    /\ rsPc' = "started"
    /\ UNCHANGED <<command, rejectFlag, checkpoint, graphInput>>
    /\ UNCHANGED agentVars
    /\ UNCHANGED runnerVars
    /\ UNCHANGED graphVars
    /\ UNCHANGED selectorVars
    /\ UNCHANGED auxVars

NextResume ==
    \/ PrepareInput
    \/ StartGraph

SpecResume == InitResume /\ [][NextResume]_vars

(***************************************************************************)
(* The compiled agent graph (subgraph.handler.ts): the nodes of the        *)
(* middleware hooks, the conditional routers with their path-maps, and the *)
(* wrapModelCall chain of callModel.  The agent has no trigger nodes, so   *)
(* START leads to agentStartNode.                                          *)
(***************************************************************************)
\* middlewares attached to the agent
MaxMiddlewares == 3

\* model calls of one run of the compiled graph
MaxModelCalls == 2

agentKey == "agent"

GRAPH_NODE_TITLE_CONVERSATION == "title_conversation"

GRAPH_NODE_SUMMARIZE_CONVERSATION == "summarize_conversation"

Range(s) == {s[i] : i \in DOMAIN s}

\* [...hooks].reverse()
reverse(s) == [i \in 1..Len(s) |-> s[Len(s) + 1 - i]]

\* an AgentMiddleware with its node key: which hooks it defines
Middleware(key, beforeAgent, beforeModel, wrapModelCall, afterModel, afterAgent) ==
    [key |-> key, beforeAgent |-> beforeAgent, beforeModel |-> beforeModel,
     wrapModelCall |-> wrapModelCall, afterModel |-> afterModel, afterAgent |-> afterAgent]

\* getModelHooks: the keys of the beforeAgent hooks, in registration order
beforeAgentHooks(mws) ==
    LET hooked == SelectSeq(mws, LAMBDA m : m.beforeAgent)
    IN  [i \in 1..Len(hooked) |-> hooked[i].key \o "_before_agent"]

\* getModelHooks: the keys of the beforeModel hooks, in registration order
beforeModelHooks(mws) ==
    LET hooked == SelectSeq(mws, LAMBDA m : m.beforeModel)
    IN  [i \in 1..Len(hooked) |-> hooked[i].key \o "_before_model"]

\* getModelHooks: the keys of the afterModel hooks, in registration order
afterModelHooks(mws) ==
    LET hooked == SelectSeq(mws, LAMBDA m : m.afterModel)
    IN  [i \in 1..Len(hooked) |-> hooked[i].key \o "_after_model"]

MutAfterModelExecutionOrder(mws) == afterModelHooks(mws)

afterModelExecutionOrder(mws) == reverse(afterModelHooks(mws))

afterAgentHooks(mws) ==
    LET hooked == SelectSeq(mws, LAMBDA m : m.afterAgent)
    IN  [i \in 1..Len(hooked) |-> hooked[i].key \o "_after_agent"]

afterAgentExecutionOrder(mws) == reverse(afterAgentHooks(mws))

\* mutant: the loop enters at the model's node, past the beforeModel hooks
MutAgentLoopEntryNode(g) == agentKey

agentLoopEntryNode(g) ==
    IF beforeModelHooks(g.middlewares) # << >> THEN beforeModelHooks(g.middlewares)[1]
    ELSE agentKey

agentStartNode(g) ==
    IF beforeAgentHooks(g.middlewares) # << >> THEN beforeAgentHooks(g.middlewares)[1]
    ELSE agentLoopEntryNode(g)

agentDecisionNode(g) ==
    IF afterModelExecutionOrder(g.middlewares) = << >> THEN agentKey
    ELSE Last(afterModelExecutionOrder(g.middlewares))

afterAgentEntryNode(g) ==
    IF afterAgentExecutionOrder(g.middlewares) = << >> THEN Undef
    ELSE afterAgentExecutionOrder(g.middlewares)[1]

agentFinalExitNode(g) ==
    IF afterAgentExecutionOrder(g.middlewares) = << >> THEN agentDecisionNode(g)
    ELSE Last(afterAgentExecutionOrder(g.middlewares))

\* a WrapModelCallHandler is the list of what a request goes through, the
\* outermost first; the core handler invokes the model
defaultModelHandler == <<"model">>

\* (next, middleware) => middleware.wrapModelCall ? (request) => middleware.wrapModelCall(request, next) : next
wrapCallback(next, middleware) ==
    IF ~middleware.wrapModelCall THEN next ELSE <<middleware.key>> \o next

\* Array.prototype.reduce: from the first element to the last
RECURSIVE reduceLeft(_, _, _)
reduceLeft(mws, i, acc) ==
    IF i > Len(mws) THEN acc ELSE reduceLeft(mws, i + 1, wrapCallback(acc, mws[i]))

\* Array.prototype.reduceRight: from the last element to the first
RECURSIVE reduceRight(_, _, _)
reduceRight(mws, i, acc) ==
    IF i = 0 THEN acc ELSE reduceRight(mws, i - 1, wrapCallback(acc, mws[i]))

MutWrappedModelHandler(mws) == reduceLeft(mws, 1, defaultModelHandler)

wrappedModelHandler(mws) == reduceRight(mws, Len(mws), defaultModelHandler)

agentHasNextNodes(g) == Len(g.next) > 0 \/ Len(g.fail) > 0

nextNodeKey(g) == IF g.isStart /\ agentHasNextNodes(g) THEN g.next ELSE << >>

\* mutant: the navigators are handed no fail node
MutFailKey(g) == Undef

\* the fail node handed to the navigators
failKey(g) == IF g.isStart /\ Len(g.fail) > 0 THEN g.fail[1] ELSE Undef

\* the names of withTools when the path-map is filled
toolNames(g) == g.tools \cup g.subAgents

pathMap(g) ==
    (IF g.summarizeTitle THEN {GRAPH_NODE_TITLE_CONVERSATION} ELSE {})
    \cup (IF g.summarize.enabled THEN {GRAPH_NODE_SUMMARIZE_CONVERSATION} ELSE {})
    \cup (IF g.isStart /\ agentHasNextNodes(g) THEN Range(g.next) \cup Range(g.fail) ELSE {})
    \cup toolNames(g)

decisionPathMap(g) ==
    IF afterAgentEntryNode(g) # Undef THEN pathMap(g) \cup {afterAgentEntryNode(g)}
    ELSE IF Len(nextNodeKey(g)) > 0 THEN pathMap(g)
    ELSE pathMap(g) \cup {END}

exitPathMap(g) ==
    (pathMap(g) \ toolNames(g)) \cup (IF Len(nextNodeKey(g)) = 0 THEN {END} ELSE {})

\* the options createAgentNavigator is created with for the decision node
decisionNav(g) ==
    [exitNode |-> afterAgentEntryNode(g),
     nextNodes |-> IF afterAgentEntryNode(g) # Undef THEN << >> ELSE nextNodeKey(g),
     fail |-> failKey(g), summarize |-> g.summarize, summarizeTitle |-> g.summarizeTitle]

\* the options createAfterAgentNavigator is created with for the final exit node
exitNav(g) ==
    [exitNode |-> Undef, nextNodes |-> nextNodeKey(g), fail |-> failKey(g),
     summarize |-> g.summarize, summarizeTitle |-> g.summarizeTitle]

AfterAgentNavigator(nav, msgs, title, error) ==
    LET lastMessage == IF msgs = << >> THEN NoMessage ELSE Last(msgs)
        summary == IF nav.summarize.enabled /\ Len(msgs) > nav.summarize.maxMessages
                   THEN <<Send(GRAPH_NODE_SUMMARIZE_CONVERSATION, NoToolCall)>>
                   ELSE IF title = Undef /\ nav.summarizeTitle
                   THEN <<Send(GRAPH_NODE_TITLE_CONVERSATION, NoToolCall)>>
                   ELSE << >>
        nexts == summary \o
                 (IF error = Undef
                  THEN [i \in 1..Len(nav.nextNodes) |-> Send(nav.nextNodes[i], NoToolCall)]
                  ELSE << >>)
    IN  IF msgs # << >> /\ isAIMessage(lastMessage)
        THEN IF nexts # << >>
             THEN RouteSends(IF error # Undef /\ nav.fail # Undef
                             THEN Append(nexts, Send(nav.fail, NoToolCall))
                             ELSE nexts)
             ELSE IF error # Undef /\ nav.fail # Undef THEN RouteTo(nav.fail)
             ELSE RouteTo(END)
        ELSE IF nav.nextNodes # << >>
        THEN RouteSends([i \in 1..Len(nav.nextNodes) |-> Send(nav.nextNodes[i], NoToolCall)])
        ELSE IF error # Undef /\ nav.fail # Undef THEN RouteTo(nav.fail)
        ELSE RouteTo(END)

\* the destinations a router's answer names
Destinations(route) ==
    IF route.node # Undef THEN {route.node}
    ELSE {route.sends[i].node : i \in DOMAIN route.sends}

\* a tool node or a sub-agent node that ends the agent and hands over to the
\* agent's next nodes
isEndRouter(g, name) == name \in g.endNodes /\ Len(nextNodeKey(g)) > 0

\* the addConditionalEdges calls of the compiled graph: the source node, whether
\* a path-map is passed, the path-map, and the ends the node is added with
conditionalEdges(g) ==
    {[source |-> agentDecisionNode(g), hasPathMap |-> TRUE, pathMap |-> decisionPathMap(g),
      ends |-> {}]}
    \cup (IF afterAgentEntryNode(g) # Undef
          THEN {[source |-> agentFinalExitNode(g), hasPathMap |-> TRUE,
                 pathMap |-> exitPathMap(g), ends |-> {}]}
          ELSE {})
    \cup {[source |-> name, hasPathMap |-> FALSE, pathMap |-> {},
           ends |-> Range(nextNodeKey(g))] : name \in {t \in g.tools : isEndRouter(g, t)}}
    \cup {[source |-> name, hasPathMap |-> FALSE, pathMap |-> {}, ends |-> {}] :
            name \in {a \in g.subAgents : isEndRouter(g, a)}}

routerOf(g, source) == CHOOSE r \in conditionalEdges(g) : r.source = source

\* the nodes that run inside the agent's graph; every other destination hands
\* the run to another graph or ends it
ownNodes(g) ==
    {agentKey} \cup Range(beforeAgentHooks(g.middlewares))
    \cup Range(beforeModelHooks(g.middlewares))
    \cup Range(afterModelExecutionOrder(g.middlewares))
    \cup Range(afterAgentExecutionOrder(g.middlewares)) \cup toolNames(g)

\* a router's answer as it is kept: the router, the answer, the state it read
\* and the afterModel hooks that ran between the model call and the answer
Routed(g, source, route, state, runs) ==
    [source |-> source, hasPathMap |-> routerOf(g, source).hasPathMap,
     pathMap |-> routerOf(g, source).pathMap, destinations |-> Destinations(route),
     state |-> state, hookRuns |-> runs]

\* the hook-less stand-ins for what a middleware's afterModel hook returns:
\* nothing, or the last AI message without its tool calls
HookResults == {"none", "drop_tool_calls"}

applyHookResult(msgs, result) ==
    IF result = "drop_tool_calls" /\ msgs # << >> /\ isAIMessage(Last(msgs))
    THEN [msgs EXCEPT ![Len(msgs)].tool_calls = << >>]
    ELSE msgs

MiddlewareKinds ==
    { [beforeAgent |-> FALSE, beforeModel |-> FALSE, wrapModelCall |-> w, afterModel |-> a,
       afterAgent |-> x] : w \in BOOLEAN, a \in BOOLEAN, x \in {FALSE} }
    \cup { [beforeAgent |-> FALSE, beforeModel |-> FALSE, wrapModelCall |-> FALSE,
             afterModel |-> FALSE, afterAgent |-> TRUE],
           [beforeAgent |-> TRUE, beforeModel |-> FALSE, wrapModelCall |-> FALSE,
             afterModel |-> FALSE, afterAgent |-> FALSE],
           [beforeAgent |-> FALSE, beforeModel |-> TRUE, wrapModelCall |-> FALSE,
             afterModel |-> FALSE, afterAgent |-> FALSE] }

MiddlewareKeys == <<"m1", "m2", "m3">>

\* agentMiddlewares in registration order
MiddlewareLists ==
    { [i \in 1..Len(kinds) |->
         Middleware(MiddlewareKeys[i], kinds[i].beforeAgent, kinds[i].beforeModel,
                    kinds[i].wrapModelCall, kinds[i].afterModel,
                    kinds[i].afterAgent)] :
      kinds \in SeqsUpTo(MiddlewareKinds, MaxMiddlewares) }

SummarizeOptions ==
    { [enabled |-> FALSE, maxMessages |-> 100], [enabled |-> TRUE, maxMessages |-> 1] }

\* an agent with one tool and one sub agent and no middleware
BaseGraph ==
    [isStart |-> TRUE, summarizeTitle |-> FALSE,
     summarize |-> [enabled |-> FALSE, maxMessages |-> 100], failBranch |-> FALSE,
     tools |-> {"search"}, subAgents |-> {"helper"}, endNodes |-> {}, next |-> << >>,
     fail |-> << >>, middlewares |-> << >>]

\* the agents the graph is compiled for: every middleware list with the base
\* routing, and every routing with no middleware, one afterAgent middleware or
\* one middleware with both before hooks
AgentGraphs ==
    { [BaseGraph EXCEPT !.middlewares = mws, !.failBranch = fb] :
        mws \in MiddlewareLists, fb \in BOOLEAN }
    \cup
    { [isStart |-> st, summarizeTitle |-> ti, summarize |-> su, failBranch |-> fb,
       tools |-> {"search"}, subAgents |-> {"helper"}, endNodes |-> en, next |-> nx,
       fail |-> fl, middlewares |-> mws] :
        st \in BOOLEAN, ti \in BOOLEAN, su \in SummarizeOptions, fb \in BOOLEAN,
        en \in SUBSET {"search", "helper"}, nx \in {<< >>, <<"next_node">>},
        fl \in {<< >>, <<"fail_node">>},
        mws \in {<< >>, <<Middleware("m1", FALSE, FALSE, FALSE, FALSE, TRUE)>>,
                 <<Middleware("m1", TRUE, TRUE, FALSE, FALSE, FALSE)>>} }

\* the tool calls of one model response
ModelResponses(g) ==
    { [i \in 1..Len(names) |-> ToolCall(IdTable[i], names[i], <<"args">>)] :
        names \in SeqsUpTo(toolNames(g), 2) }

InitGraph ==
    /\ AgentStart({CHOOSE c \in Configs : TRUE})
    /\ AuxIdle
    /\ RunnerIdle
    /\ SelectorIdle
    /\ ResumeIdle
    /\ compiled \in AgentGraphs
    /\ superstep = {agentStartNode(compiled)}
    /\ pending = {}
    /\ \E title \in {Undef, "t0"} :
         subState = [messages |-> <<HumanMessage("h1")>>, error |-> Undef, title |-> title,
                     writer |-> Undef]
    /\ modelCalls = 0
    /\ wrapTrace = << >>
    /\ hookRuns = << >>
    /\ routed = NoRoute
    /\ handoff = NoHandoff
    /\ thrown = Undef

\* the step's barrier: the nodes named by node's edges run in the next step
Advance(node, successors) ==
    LET inside == successors \cap ownNodes(compiled)
    IN  /\ handoff' = [from |-> node, to |-> successors]
        /\ IF superstep = {node}
           THEN superstep' = pending \cup inside /\ pending' = {}
           ELSE superstep' = superstep \ {node} /\ pending' = pending \cup inside

\* the conditional edges of agentDecisionNode
Decide(node, state, runs) ==
    LET route == AgentNavigator(decisionNav(compiled), state.messages, state.title, state.error)
    IN  /\ routed' = Routed(compiled, node, route, state, runs)
        /\ Advance(node, Destinations(route))

\* the node after an afterModel node or the agent's node, or the decision
AfterModelStep(node, position, state, runs) ==
    LET order == afterModelExecutionOrder(compiled.middlewares)
    IN  IF position < Len(order)
        THEN Advance(node, {order[position + 1]}) /\ UNCHANGED routed
        ELSE Decide(node, state, runs)

\* createBeforeAgentNode of one hook, in registration order; the last one is
\* followed by agentLoopEntryNode
GraphBeforeAgent ==
    /\ \E position \in DOMAIN beforeAgentHooks(compiled.middlewares) :
         LET hooks == beforeAgentHooks(compiled.middlewares)
         IN  /\ hooks[position] \in superstep
             /\ Advance(hooks[position],
                        {IF position < Len(hooks) THEN hooks[position + 1]
                         ELSE agentLoopEntryNode(compiled)})
    /\ subState' = [subState EXCEPT !.writer = handoff'.from]
    /\ UNCHANGED <<compiled, modelCalls, wrapTrace, hookRuns, routed>>
    /\ UNCHANGED agentVars
    /\ UNCHANGED runnerVars
    /\ UNCHANGED resumeVars
    /\ UNCHANGED selectorVars
    /\ UNCHANGED auxVars
    /\ UNCHANGED thrown

\* createBeforeModelNode of one hook, in registration order; the last one is
\* followed by the agent's node
GraphBeforeModel ==
    /\ \E position \in DOMAIN beforeModelHooks(compiled.middlewares) :
         LET hooks == beforeModelHooks(compiled.middlewares)
         IN  /\ hooks[position] \in superstep
             /\ Advance(hooks[position],
                        {IF position < Len(hooks) THEN hooks[position + 1] ELSE agentKey})
    /\ subState' = [subState EXCEPT !.writer = handoff'.from]
    /\ UNCHANGED <<compiled, modelCalls, wrapTrace, hookRuns, routed>>
    /\ UNCHANGED agentVars
    /\ UNCHANGED runnerVars
    /\ UNCHANGED resumeVars
    /\ UNCHANGED selectorVars
    /\ UNCHANGED auxVars
    /\ UNCHANGED thrown

\* callModel: the request goes through wrappedModelHandler; the model answers
\* with an AI message or throws
GraphCallModel ==
    /\ agentKey \in superstep
    /\ modelCalls < MaxModelCalls
    /\ modelCalls' = modelCalls + 1
    /\ wrapTrace' = wrappedModelHandler(compiled.middlewares)
    /\ hookRuns' = << >>
    /\ \/ \E calls \in ModelResponses(compiled) :
            LET state == [subState EXCEPT
                            !.messages = Append(@, AIMessage(AIIdTable[modelCalls + 1], calls)),
                            !.error = Undef, !.writer = agentKey]
            IN  /\ subState' = state
                /\ AfterModelStep(agentKey, 0, state, << >>)
                /\ UNCHANGED thrown
       \/ /\ compiled.failBranch
          /\ LET state == [subState EXCEPT
                             !.messages = Append(@, AIMessage(AIIdTable[modelCalls + 1], << >>)),
                             !.error = "model error", !.writer = agentKey]
             IN  /\ subState' = state
                 /\ AfterModelStep(agentKey, 0, state, << >>)
                 /\ UNCHANGED thrown
       \/ /\ ~compiled.failBranch
          /\ superstep' = {}
          /\ pending' = {}
          /\ handoff' = [from |-> agentKey, to |-> {}]
          /\ thrown' = "model error"
          /\ UNCHANGED <<subState, routed>>
    /\ UNCHANGED compiled
    /\ UNCHANGED agentVars
    /\ UNCHANGED runnerVars
    /\ UNCHANGED resumeVars
    /\ UNCHANGED selectorVars
    /\ UNCHANGED auxVars

\* createAfterModelNode of one hook: skipped on the fail branch's error
GraphAfterModel ==
    /\ \E position \in DOMAIN afterModelExecutionOrder(compiled.middlewares) :
         LET node == afterModelExecutionOrder(compiled.middlewares)[position]
         IN  /\ node \in superstep
             /\ IF compiled.failBranch /\ subState.error # Undef
                THEN /\ UNCHANGED <<subState, hookRuns>>
                     /\ AfterModelStep(node, position, subState, hookRuns)
                ELSE \E result \in HookResults :
                       LET state == [subState EXCEPT
                                       !.messages = applyHookResult(@, result),
                                       !.writer = node]
                       IN  /\ subState' = state
                           /\ hookRuns' = Append(hookRuns, node)
                           /\ AfterModelStep(node, position, state, Append(hookRuns, node))
    /\ UNCHANGED <<compiled, modelCalls, wrapTrace>>
    /\ UNCHANGED agentVars
    /\ UNCHANGED runnerVars
    /\ UNCHANGED resumeVars
    /\ UNCHANGED selectorVars
    /\ UNCHANGED auxVars
    /\ UNCHANGED thrown

\* createAfterAgentNode of one hook; the last one is followed by the
\* conditional edges of agentFinalExitNode
GraphAfterAgent ==
    /\ \E position \in DOMAIN afterAgentExecutionOrder(compiled.middlewares) :
         LET order == afterAgentExecutionOrder(compiled.middlewares)
             node == order[position]
             route == AfterAgentNavigator(exitNav(compiled), subState.messages, subState.title,
                                          subState.error)
         IN  /\ node \in superstep
             /\ IF position < Len(order)
                THEN Advance(node, {order[position + 1]}) /\ UNCHANGED routed
                ELSE /\ routed' = Routed(compiled, node, route, subState, hookRuns)
                     /\ Advance(node, Destinations(route))
    /\ UNCHANGED <<compiled, subState, modelCalls, wrapTrace, hookRuns>>
    /\ UNCHANGED agentVars
    /\ UNCHANGED runnerVars
    /\ UNCHANGED resumeVars
    /\ UNCHANGED selectorVars
    /\ UNCHANGED auxVars
    /\ UNCHANGED thrown

\* a tool node or a sub-agent node: its message, then its edge
GraphToolNode ==
    /\ \E node \in superstep \cap toolNames(compiled) :
         LET state == [subState EXCEPT
                         !.messages = Append(@, ToolMessage(<<"result">>, node, Undef, "success"))]
             route == RouteSends([i \in 1..Len(nextNodeKey(compiled)) |->
                                    Send(nextNodeKey(compiled)[i], NoToolCall)])
         IN  /\ subState' = state
             /\ IF isEndRouter(compiled, node)
                THEN /\ routed' = Routed(compiled, node, route, state, hookRuns)
                     /\ Advance(node, Destinations(route))
                ELSE IF node \in compiled.endNodes
                THEN Advance(node, {END}) /\ UNCHANGED routed
                ELSE Advance(node, {agentLoopEntryNode(compiled)}) /\ UNCHANGED routed
    /\ UNCHANGED <<compiled, modelCalls, wrapTrace, hookRuns>>
    /\ UNCHANGED agentVars
    /\ UNCHANGED runnerVars
    /\ UNCHANGED resumeVars
    /\ UNCHANGED selectorVars
    /\ UNCHANGED auxVars
    /\ UNCHANGED thrown

NextGraph ==
    \/ GraphBeforeAgent
    \/ GraphBeforeModel
    \/ GraphCallModel
    \/ GraphAfterModel
    \/ GraphAfterAgent
    \/ GraphToolNode

SpecGraph == InitGraph /\ [][NextGraph]_vars

(***************************************************************************)
(* The LLM tool selector middleware: its wrapModelCall asks a selection    *)
(* model which tools of the request are relevant and hands the inner model *)
(* handler a request with the selected tools only.                         *)
(***************************************************************************)
MaxTools == 2

MaxAnswer == 3

\* an optional value: undefined is the empty set, a value v is {v}
Absent == {}

Some(v) == {v}

ValueOf(optional) == CHOOSE v \in optional : TRUE

\* a ?? b
Coalesce(a, b) == IF a # Absent THEN a ELSE b

\* a tool created by the agent: it has a name and a description
StructuredTool(name) == [key |-> name, name |-> name, description |-> TRUE]

\* a provider-specific tool dict: it has no description, and it may have a name
ProviderTool(key, name) == [key |-> key, name |-> name, description |-> FALSE]

\* typeof tool === "object" && "name" in tool && "description" in tool &&
\* typeof tool.name === "string"
isStructuredTool(tool) == tool.name # Undef /\ tool.description

\* typeof tool === "object" && "name" in tool && typeof tool.name === "string"
isNamedTool(tool) == tool.name # Undef

names(tools) == [i \in 1..Len(tools) |-> tools[i].name]

\* the run's config is the runtime of the request; the runs the invoke handler
\* starts carry no context
runtimeContext == [maxTools |-> Absent, alwaysInclude |-> Absent]

isHumanMessage(m) == m.type = "human"

Selection(availableTools, validToolNames) ==
    [kind |-> "selection", availableTools |-> availableTools,
     validToolNames |-> validToolNames, error |-> Undef]

SelectionError(error) ==
    [kind |-> "throw", availableTools |-> << >>, validToolNames |-> << >>, error |-> error]

\* prepareSelectionRequest: kind "none" is the undefined it returns when there
\* is nothing to select from
prepareSelectionRequest(request, options, runtime) ==
    LET alwaysInclude == ValueOf(Coalesce(runtime.alwaysInclude,
                                          Coalesce(options.alwaysInclude, Some(<< >>))))
        baseTools == SelectSeq(request.tools, isStructuredTool)
        availableToolNames == Range(names(baseTools))
        missingTools == SelectSeq(alwaysInclude, LAMBDA name : name \notin availableToolNames)
        availableTools == SelectSeq(baseTools, LAMBDA tool : tool.name \notin Range(alwaysInclude))
    IN  IF Len(request.tools) = 0 THEN NoSelection
        ELSE IF Len(alwaysInclude) > 0 /\ Len(missingTools) > 0
        THEN SelectionError("Tools in alwaysInclude not found in request")
        ELSE IF Len(availableTools) = 0 THEN NoSelection
        ELSE IF \A i \in DOMAIN request.messages : ~isHumanMessage(request.messages[i])
        THEN SelectionError("No user message found in request messages")
        ELSE Selection(availableTools, names(availableTools))

\* mutant: the names are taken without the maxTools limit
RECURSIVE MutSelectedToolNames(_, _, _, _)
MutSelectedToolNames(tools, validToolNames, maxTools, selected) ==
    IF tools = << >> THEN selected
    ELSE LET toolName == Head(tools)
         IN  IF toolName \in Range(validToolNames) /\ toolName \notin Range(selected)
             THEN MutSelectedToolNames(Tail(tools), validToolNames, maxTools,
                                       Append(selected, toolName))
             ELSE MutSelectedToolNames(Tail(tools), validToolNames, maxTools, selected)

\* the loop of processSelectionResponse over response.tools: selectedToolNames
RECURSIVE selectedToolNames(_, _, _, _)
selectedToolNames(tools, validToolNames, maxTools, selected) ==
    IF tools = << >> THEN selected
    ELSE LET toolName == Head(tools)
         IN  IF toolName \notin Range(validToolNames)
             THEN selectedToolNames(Tail(tools), validToolNames, maxTools, selected)
             ELSE IF /\ toolName \notin Range(selected)
                     /\ (maxTools = Absent \/ Len(selected) < ValueOf(maxTools))
             THEN selectedToolNames(Tail(tools), validToolNames, maxTools,
                                    Append(selected, toolName))
             ELSE selectedToolNames(Tail(tools), validToolNames, maxTools, selected)

\* mutant: a name is checked only while the limit has not been reached
MutInvalidToolSelections(tools, validToolNames, maxTools) ==
    LET checked == IF maxTools = Absent \/ Len(tools) <= ValueOf(maxTools) THEN tools
                   ELSE SubSeq(tools, 1, ValueOf(maxTools))
    IN  SelectSeq(checked, LAMBDA toolName : toolName \notin Range(validToolNames))

\* the loop of processSelectionResponse over response.tools: invalidToolSelections
invalidToolSelections(tools, validToolNames, maxTools) ==
    SelectSeq(tools, LAMBDA toolName : toolName \notin Range(validToolNames))

ModifiedRequest(tools) == [kind |-> "request", tools |-> tools]

InvalidSelection == [kind |-> "throw", tools |-> << >>]

\* processSelectionResponse: the request for the inner handler, or the error thrown
processSelectionResponse(response, availableTools, validToolNames, request, options) ==
    LET maxTools == options.maxTools
        alwaysInclude == ValueOf(Coalesce(options.alwaysInclude, Some(<< >>)))
        selectedNames == selectedToolNames(response.tools, validToolNames, maxTools, << >>)
        selectedTools == SelectSeq(availableTools,
                                   LAMBDA tool : tool.name \in Range(selectedNames))
        alwaysIncludedTools == SelectSeq(request.tools,
                                   LAMBDA tool : isNamedTool(tool)
                                                 /\ tool.name \in Range(alwaysInclude))
        providerTools == SelectSeq(request.tools, LAMBDA tool : ~isStructuredTool(tool))
    IN  IF Len(invalidToolSelections(response.tools, validToolNames, maxTools)) > 0
        THEN InvalidSelection
        ELSE ModifiedRequest(selectedTools \o alwaysIncludedTools \o providerTools)

\* the tools a request can carry, in the order it carries them
ToolPool == <<StructuredTool("a"), StructuredTool("b"), StructuredTool("search"),
              ProviderTool("web_search", "search"), ProviderTool("code_execution", Undef)>>

RECURSIVE Pick(_, _)
Pick(s, indexes) ==
    IF s = << >> THEN << >>
    ELSE IF Len(s) \in indexes
    THEN Append(Pick(SubSeq(s, 1, Len(s) - 1), indexes), s[Len(s)])
    ELSE Pick(SubSeq(s, 1, Len(s) - 1), indexes)

SelectorRequests ==
    [tools : {Pick(ToolPool, indexes) : indexes \in SUBSET (1..Len(ToolPool))},
     messages : {<< >>, <<HumanMessage("h1")>>}]

SelectorOptions ==
    [maxTools : {Absent} \cup {Some(n) : n \in 0..MaxTools},
     alwaysInclude : {Absent, Some(<<"search">>), Some(<<"search", "a">>), Some(<<"zz">>)}]

\* the names the selection model can answer with
AnswerNames == {"a", "b", "search", "zz"}

Answers == UNION {[1..n -> AnswerNames] : n \in 0..MaxAnswer}

\* what the structured selection model can return
SelectorResponses == {NoResponse} \cup {[hasTools |-> TRUE, tools |-> answer] : answer \in Answers}

InitSelector ==
    /\ AgentStart({CHOOSE c \in Configs : TRUE})
    /\ AuxIdle
    /\ RunnerIdle
    /\ ResumeIdle
    /\ GraphIdle
    /\ selRequest \in SelectorRequests
    /\ selOptions \in SelectorOptions
    /\ selection = NoSelection
    /\ selResponse = NoResponse
    /\ handlerCalls = << >>
    /\ selPc = "wrapModelCall"
    /\ selContext = runtimeContext

\* a caller of the graph hands a context to the run: the overrides the
\* middleware's contextSchema admits
RuntimeContexts ==
    [maxTools : {Absent, Some(1)}, alwaysInclude : {Absent, Some(<<"a">>)}]

InitSelectorContext ==
    /\ AgentStart({CHOOSE c \in Configs : TRUE})
    /\ AuxIdle
    /\ RunnerIdle
    /\ ResumeIdle
    /\ GraphIdle
    /\ selRequest \in SelectorRequests
    /\ selOptions \in SelectorOptions
    /\ selection = NoSelection
    /\ selResponse = NoResponse
    /\ handlerCalls = << >>
    /\ selPc = "wrapModelCall"
    /\ selContext \in RuntimeContexts

\* wrapModelCall up to the call of the selection model
SelectorPrepare ==
    /\ selPc = "wrapModelCall"
    /\ LET selectionRequest == prepareSelectionRequest(selRequest, selOptions, selContext)
       IN  /\ selection' = selectionRequest
           /\ CASE selectionRequest.kind = "throw" ->
                     /\ selPc' = "failed"
                     /\ UNCHANGED handlerCalls
                [] selectionRequest.kind = "none" ->
                     /\ selPc' = "handled"
                     /\ handlerCalls' = Append(handlerCalls, selRequest.tools)
                [] OTHER ->
                     /\ selPc' = "selecting"
                     /\ UNCHANGED handlerCalls
    /\ UNCHANGED <<selRequest, selOptions, selResponse, selContext>>
    /\ UNCHANGED agentVars
    /\ UNCHANGED runnerVars
    /\ UNCHANGED resumeVars
    /\ UNCHANGED graphVars
    /\ UNCHANGED auxVars

\* wrapModelCall from the answer of the selection model on
SelectorRespond ==
    /\ selPc = "selecting"
    /\ \E response \in SelectorResponses :
          /\ selResponse' = response
          /\ IF ~response.hasTools
             THEN /\ selPc' = "failed"
                  /\ UNCHANGED handlerCalls
             ELSE LET modified == processSelectionResponse(response, selection.availableTools,
                                      selection.validToolNames, selRequest, selOptions)
                  IN  IF modified.kind = "throw"
                      THEN /\ selPc' = "failed"
                           /\ UNCHANGED handlerCalls
                      ELSE /\ selPc' = "handled"
                           /\ handlerCalls' = Append(handlerCalls, modified.tools)
    /\ UNCHANGED <<selRequest, selOptions, selection, selContext>>
    /\ UNCHANGED agentVars
    /\ UNCHANGED runnerVars
    /\ UNCHANGED resumeVars
    /\ UNCHANGED graphVars
    /\ UNCHANGED auxVars

NextSelector ==
    \/ SelectorPrepare
    \/ SelectorRespond

SpecSelector == InitSelector /\ [][NextSelector]_vars

\* the tool selector in a run whose caller supplies a runtime context
SpecSelectorContext == InitSelectorContext /\ [][NextSelector]_vars

(***************************************************************************)
(* Compilation of an agent's graph: the tools it collects, the nodes it    *)
(* registers in interruptBefore and the channels the middlewares' state    *)
(* schemas contribute, then a run of the compiled graph through its tool   *)
(* nodes.                                                                  *)
(***************************************************************************)
MaxToolRuns == 1

\* a tool of the agent: tool.name, the name agentConfig knows it by, and where it comes from
GraphTool(name, lc_name, origin) == [name |-> name, lc_name |-> lc_name, origin |-> origin]

\* a toolset's dynamic tool and its class-based tool, a middleware's tool, a
\* knowledge retriever, a workflow task tool and a follower sub-agent
AgentTools ==
    { GraphTool("search", "search", "toolset"),
      GraphTool("tavily_search", "TavilySearchResults", "toolset"),
      GraphTool("write_todos", "write_todos", "middleware"),
      GraphTool("retriever-kb1", "retriever-kb1", "knowledge"),
      GraphTool("task", "task", "workflow"),
      GraphTool("helper", "helper", "subagent") }

\* a key of a middleware's state schema with the reducer its schema declares
SchemaKey(key, reducer) == [name |-> key, reducer |-> reducer]

\* the channels that exist before the middlewares' state schemas are flattened
existedStateVariables ==
    { SchemaKey("messages", "messagesStateReducer"), SchemaKey("title", "lastValue"),
      SchemaKey("plan", "lastValue") }

\* the state schemas a middleware can come with: none, or a shape
StateSchemas ==
    { {},
      {{}},
      {{SchemaKey("todos", "lastValue")}},
      {{SchemaKey("todos", "append")}},
      {{SchemaKey("messages", "lastValue"), SchemaKey("_private", "lastValue")}},
      {{SchemaKey("plan", "lastValue")}} }

AgentMiddlewares ==
    { <<a>> : a \in StateSchemas } \cup { <<a, b>> : a \in StateSchemas, b \in StateSchemas }

CompileInputs ==
    [ tools : {AgentTools},
      interruptBefore : { sensitive \in SUBSET { t.lc_name : t \in AgentTools } : Cardinality(sensitive) <= 2 },
      availableTools : { {}, {"search"} },
      middlewares : AgentMiddlewares ]

\* the tools collected into the graph: a toolset's tools go through the agent's allow-list
collectedTools(input) ==
    { tool \in input.tools :
         tool.origin = "toolset" =>
             (IF input.availableTools # {} THEN tool.name \in input.availableTools ELSE TRUE) }

\* interruptBefore as handed to compile(): the toolset tools and the sub-agents
\* that agentConfig.interruptBefore names
interruptBeforeNodes(input) ==
    { tool.name : tool \in { t \in collectedTools(input) :
                                /\ t.origin \in {"toolset", "subagent"}
                                /\ t.lc_name \in input.interruptBefore } }

startsWithUnderscore(key) == key \in {"_private"}

\* the reduce over the middlewares: a key that starts with '_', that exists
\* already or that an earlier middleware declared is left out; every other
\* key becomes a channel with the last-value reducer
RECURSIVE middlewareStateAnnotations(_, _)
middlewareStateAnnotations(middlewares, acc) ==
    IF middlewares = << >> THEN acc
    ELSE LET stateSchema == Head(middlewares)
             shape == IF stateSchema = {} THEN {} ELSE CHOOSE sh \in stateSchema : TRUE
             taken == { c.name : c \in existedStateVariables \cup acc }
             added == { SchemaKey(k.name, "lastValue") :
                           k \in { e \in shape : ~startsWithUnderscore(e.name) /\ e.name \notin taken } }
         IN  middlewareStateAnnotations(Tail(middlewares), acc \cup added)

\* the channels of the compiled graph
SubgraphStateAnnotation(input) ==
    existedStateVariables \cup middlewareStateAnnotations(input.middlewares, {})

InitCompile ==
    /\ AgentStart({CHOOSE c \in Configs : TRUE})
    /\ RunnerIdle
    /\ ResumeIdle
    /\ GraphIdle
    /\ SelectorIdle
    /\ ToolOutputIdle
    /\ ToolOutputIdle
    /\ WrapIdle
    /\ MuteIdle
    /\ SubAgentIdle
    /\ ThreadIdle
    /\ cmpInput \in CompileInputs
    /\ cmpGraph = [tools |-> {}, interruptBefore |-> {}, channels |-> {}]
    /\ cmpPc = "compiling"
    /\ cmpSent = Undef
    /\ cmpResumed = FALSE
    /\ cmpExecuted = {}

\* createAgentSubgraph up to subgraphBuilder.compile
CompileGraph ==
    /\ cmpPc = "compiling"
    /\ cmpGraph' = [tools |-> collectedTools(cmpInput),
                    interruptBefore |-> interruptBeforeNodes(cmpInput),
                    channels |-> SubgraphStateAnnotation(cmpInput)]
    /\ cmpPc' = "running"
    /\ UNCHANGED <<cmpInput, cmpSent, cmpResumed, cmpExecuted>>
    /\ UNCHANGED exceptCompile

\* the router of the run sends a tool call of the model to the tool's node
SendToolCall ==
    /\ cmpPc = "running"
    /\ cmpSent = Undef
    /\ Cardinality(cmpExecuted) < MaxToolRuns
    /\ \E tool \in cmpGraph.tools : cmpSent' = tool.name
    /\ cmpResumed' = FALSE
    /\ UNCHANGED <<cmpInput, cmpGraph, cmpPc, cmpExecuted>>
    /\ UNCHANGED exceptCompile

\* the run pauses before a node that is in interruptBefore
InterruptBefore ==
    /\ cmpPc = "running"
    /\ cmpSent # Undef
    /\ cmpSent \in cmpGraph.interruptBefore
    /\ ~cmpResumed
    /\ cmpPc' = "paused"
    /\ UNCHANGED <<cmpInput, cmpGraph, cmpSent, cmpResumed, cmpExecuted>>
    /\ UNCHANGED exceptCompile

\* the paused run is resumed
ResumeRun ==
    /\ cmpPc = "paused"
    /\ cmpPc' = "running"
    /\ cmpResumed' = TRUE
    /\ UNCHANGED <<cmpInput, cmpGraph, cmpSent, cmpExecuted>>
    /\ UNCHANGED exceptCompile

\* the tool node runs
RunToolNode ==
    /\ cmpPc = "running"
    /\ cmpSent # Undef
    /\ cmpSent \in cmpGraph.interruptBefore => cmpResumed
    /\ cmpExecuted' = cmpExecuted \cup {[tool |-> cmpSent, paused |-> cmpResumed]}
    /\ cmpSent' = Undef
    /\ cmpResumed' = FALSE
    /\ UNCHANGED <<cmpInput, cmpGraph, cmpPc>>
    /\ UNCHANGED exceptCompile

NextCompile ==
    \/ CompileGraph
    \/ SendToolCall
    \/ InterruptBefore
    \/ ResumeRun
    \/ RunToolNode

SpecCompile == InitCompile /\ [][NextCompile]_vars

(***************************************************************************)
(* POST /threads: ThreadCreateHandler.execute, run by several requests at  *)
(* once.  A request gives way to the others at each await.                 *)
(***************************************************************************)
MaxRequests == 3

ThreadRequests == 1..MaxRequests

\* command.input: thread_id may be missing
ThreadInputs == [thread_id : {Undef, "th1"}, if_exists : {"raise", "do_nothing"}]

\* the conversation of the row with this id; 0 stands for null
NoConversation == 0

\* GetChatConversationQuery({threadId}): a conversation of the thread, or null
GetChatConversationQuery(rows, threadId) ==
    IF \E i \in DOMAIN rows : rows[i].threadId = threadId
    THEN { rows[i].id : i \in { k \in DOMAIN rows : rows[k].threadId = threadId } }
    ELSE { NoConversation }

\* uuidv4() of the request
uuidv4(r) == <<"uuid", r>>

\* ChatConversationUpsertCommand of an entity without id: a new row.  Whether
\* the table refuses a second row of the same threadId is not decided by the
\* handler: both outcomes are possible.
ChatConversationUpsert(rows, threadId) ==
    { [rows |-> Append(rows, [id |-> Len(rows) + 1, threadId |-> threadId]),
       conversation |-> Len(rows) + 1, error |-> Undef] }
    \cup
    IF \E i \in DOMAIN rows : rows[i].threadId = threadId
    THEN { [rows |-> rows, conversation |-> NoConversation, error |-> "duplicate key"] }
    ELSE {}

\* what a request has returned or thrown
ThreadDTO(conversation) == [kind |-> "thread", conversation |-> conversation, error |-> Undef]

ThreadError(error) == [kind |-> "throw", conversation |-> NoConversation, error |-> error]

NoOutcome == [kind |-> "none", conversation |-> NoConversation, error |-> Undef]

ThreadIdOf(r) == IF thRequests[r].input.thread_id = Undef THEN uuidv4(r)
                 ELSE <<"given", thRequests[r].input.thread_id>>

InitThread ==
    /\ AgentStart({CHOOSE c \in Configs : TRUE})
    /\ RunnerIdle
    /\ ResumeIdle
    /\ GraphIdle
    /\ SelectorIdle
    /\ ToolOutputIdle
    /\ WrapIdle
    /\ MuteIdle
    /\ SubAgentIdle
    /\ CompileIdle
    /\ thConversations = << >>
    /\ thRequests \in [ThreadRequests -> [input : ThreadInputs, pc : {"execute"},
                                          conversation : {NoConversation}, outcome : {NoOutcome}]]

\* execute up to the answer of the query, and on to the next await or the return
ThreadQuery(r) ==
    /\ thRequests[r].pc = "execute"
    /\ IF thRequests[r].input.thread_id # Undef
       THEN \E conversation \in GetChatConversationQuery(thConversations, ThreadIdOf(r)) :
               thRequests' = [thRequests EXCEPT ![r] =
                   IF thRequests[r].input.if_exists = "raise" /\ conversation # NoConversation
                   THEN [@ EXCEPT !.pc = "done", !.outcome = ThreadError("ThreadAlreadyExistsException")]
                   ELSE IF conversation = NoConversation
                   THEN [@ EXCEPT !.pc = "upsert"]
                   ELSE [@ EXCEPT !.pc = "done", !.conversation = conversation,
                                  !.outcome = ThreadDTO(conversation)]]
       ELSE thRequests' = [thRequests EXCEPT ![r].pc = "upsert"]
    /\ UNCHANGED thConversations
    /\ UNCHANGED exceptThread

\* the answer of ChatConversationUpsertCommand and the return
ThreadUpsert(r) ==
    /\ thRequests[r].pc = "upsert"
    /\ \E upserted \in ChatConversationUpsert(thConversations, ThreadIdOf(r)) :
          /\ thConversations' = upserted.rows
          /\ thRequests' = [thRequests EXCEPT ![r] =
                IF upserted.error # Undef
                THEN [@ EXCEPT !.pc = "done", !.outcome = ThreadError(upserted.error)]
                ELSE [@ EXCEPT !.pc = "done", !.conversation = upserted.conversation,
                               !.outcome = ThreadDTO(upserted.conversation)]]
    /\ UNCHANGED exceptThread

NextThread ==
    \E r \in ThreadRequests :
        \/ ThreadQuery(r)
        \/ ThreadUpsert(r)

SpecThread == InitThread /\ [][NextThread]_vars

(***************************************************************************)
(* createAgentSubgraph: the node of a sub-agent.  Each invocation opens an *)
(* execution row, runs the sub-agent's graph and closes the row in its     *)
(* finally block; invocations of one run may overlap.                      *)
(***************************************************************************)
MaxInvocations == 2

Invocations == 1..MaxInvocations

\* configurable.agentKey of the invocation: the agent that calls the sub-agent
CallerKeys == {"Agent_leader", "Agent_peer"}

\* how graph.invoke of the sub-agent's graph ends: it returns its output, or
\* an error, an abort or an interrupt of the nested graph leaves it as an exception
InvokeOutcomes == {"returned", "error", "aborted", "interrupt"}

invokeThrew(outcome) == outcome # "returned"

\* the text getErrorMessage makes of what graph.invoke threw
getErrorMessage(outcome) ==
    CASE outcome = "error" -> "model failed"
      [] outcome = "aborted" -> "Aborted"
      [] outcome = "interrupt" -> "GraphInterrupt"
      [] OTHER -> Undef

MutFinalStatus(outcome) == "success"

\* status as finalize() writes it: SUCCESS unless the catch block ran
finalStatus(outcome) == IF invokeThrew(outcome) THEN "error" ELSE "success"

NoInvocation == [pc |-> "idle", caller |-> Undef, outcome |-> Undef, execution |-> 0]

InitSubAgent ==
    /\ AgentStart({CHOOSE c \in Configs : TRUE})
    /\ RunnerIdle
    /\ ResumeIdle
    /\ GraphIdle
    /\ SelectorIdle
    /\ ToolOutputIdle
    /\ WrapIdle
    /\ MuteIdle
    /\ CompileIdle
    /\ ThreadIdle
    /\ saInvocations = [i \in Invocations |-> NoInvocation]
    /\ saExecutions = << >>
    /\ saEvents = << >>

\* the lambda up to graph.invoke: the row is created with status RUNNING and
\* on_agent_start is handed to the subscriber
SubAgentStart(i) ==
    /\ saInvocations[i].pc = "idle"
    /\ \E caller \in CallerKeys :
          LET id == Len(saExecutions) + 1
          IN  /\ saExecutions' = Append(saExecutions,
                      [id |-> id, status |-> "running", error |-> Undef, predecessor |-> caller,
                       agentKey |-> "Agent_sub", writes |-> 1])
              /\ saEvents' = Append(saEvents, [type |-> "on_agent_start", execution |-> id])
              /\ saInvocations' = [saInvocations EXCEPT ![i] =
                      [pc |-> "invoke", caller |-> caller, outcome |-> Undef, execution |-> id]]
    /\ UNCHANGED exceptSubAgent

\* graph.invoke ends; the catch block sets status and error before finally
SubAgentInvoked(i) ==
    /\ saInvocations[i].pc = "invoke"
    /\ \E outcome \in InvokeOutcomes :
          saInvocations' = [saInvocations EXCEPT ![i].pc = "finalize", ![i].outcome = outcome]
    /\ UNCHANGED <<saExecutions, saEvents>>
    /\ UNCHANGED exceptSubAgent

\* finalize(): the row is written with the final status
SubAgentFinalize(i) ==
    /\ saInvocations[i].pc = "finalize"
    /\ LET id == saInvocations[i].execution
           outcome == saInvocations[i].outcome
       IN  saExecutions' = [saExecutions EXCEPT ![id] =
                [@ EXCEPT !.status = finalStatus(outcome),
                          !.error = getErrorMessage(outcome),
                          !.writes = @ + 1]]
    /\ saInvocations' = [saInvocations EXCEPT ![i].pc = "ending"]
    /\ UNCHANGED saEvents
    /\ UNCHANGED exceptSubAgent

\* finalize(): the row is read back and on_agent_end is handed to the
\* subscriber; the lambda then returns its state or throws what it caught
SubAgentEnd(i) ==
    /\ saInvocations[i].pc = "ending"
    /\ saEvents' = Append(saEvents, [type |-> "on_agent_end", execution |-> saInvocations[i].execution])
    /\ saInvocations' = [saInvocations EXCEPT ![i].pc =
            IF invokeThrew(saInvocations[i].outcome) THEN "thrown" ELSE "returned"]
    /\ UNCHANGED saExecutions
    /\ UNCHANGED exceptSubAgent

NextSubAgent ==
    \E i \in Invocations :
        \/ SubAgentStart(i)
        \/ SubAgentInvoked(i)
        \/ SubAgentFinalize(i)
        \/ SubAgentEnd(i)

SpecSubAgent == InitSubAgent /\ [][NextSubAgent]_vars

(***************************************************************************)
(* The mute list of a run: the unmutes computed from the graph's agent     *)
(* nodes and team.agentConfig.mute, and the stream events they let through.*)
(***************************************************************************)
MaxMute == 2

MaxMuteEntry == 2

TeamId == "xpert_1"

ThreadId == "thread_1"

\* xpertGraph.nodes
XpertGraphNodes ==
    << [key |-> "Agent_1", type |-> "agent"], [key |-> "Router_1", type |-> "workflow"],
       [key |-> "Agent_2", type |-> "agent"] >>

\* the values a mute entry can be made of: keys of nodes, the team's id, the id of a collaborator
MuteValues == {"Agent_1", "Agent_2", TeamId, "xpert_2"}

MuteEntries == UNION { [1..n -> MuteValues] : n \in 0..MaxMuteEntry }

MuteLists == UNION { [1..n -> MuteEntries] : n \in 0..MaxMute }

\* array.includes
includes(array, value) == \E i \in DOMAIN array : array[i] = value

\* array.every(value => other.includes(value))
MutEveryIncluded(array, other) ==
    /\ Len(array) <= Len(other)
    /\ \A i \in DOMAIN array : array[i] = other[i]

everyIncluded(array, other) == \A i \in DOMAIN array : includes(other, array[i])

\* unmutes.filter: the entries that this mute entry does not take away
RECURSIVE filterUnmutes(_, _)
filterUnmutes(unmutes, m) ==
    IF unmutes = << >> THEN << >>
    ELSE IF everyIncluded(m, Head(unmutes))
         THEN filterUnmutes(Tail(unmutes), m)
         ELSE <<Head(unmutes)>> \o filterUnmutes(Tail(unmutes), m)

\* mute.forEach over the unmutes
RECURSIVE removeMuted(_, _)
removeMuted(unmutes, mute) ==
    IF mute = << >> THEN unmutes
    ELSE removeMuted(filterUnmutes(unmutes, Head(mute)), Tail(mute))

\* one unmute entry for each agent node of the graph, in the order of the nodes
RECURSIVE unmuteEntries(_)
unmuteEntries(nodes) ==
    IF nodes = << >> THEN << >>
    ELSE (IF Head(nodes).type = "agent" THEN << <<Head(nodes).key, TeamId>> >> ELSE << >>)
         \o unmuteEntries(Tail(nodes))

\* the tags of the stream events of a node of the graph
eventTags(node) == <<ThreadId, TeamId, node.key>>

\* createMapStreamEvents: an event is handed on when an unmute entry is made of its tags only
eventPasses(unmutes, tags) == \E i \in DOMAIN unmutes : everyIncluded(unmutes[i], tags)

InitMute ==
    /\ AgentStart({CHOOSE c \in Configs : TRUE})
    /\ RunnerIdle
    /\ ResumeIdle
    /\ GraphIdle
    /\ SelectorIdle
    /\ ToolOutputIdle
    /\ WrapIdle
    /\ CompileIdle
    /\ ThreadIdle
    /\ SubAgentIdle
    /\ muMute \in MuteLists
    /\ muUnmutes = << >>
    /\ muPc = "execute"
    /\ muEmitted = {}
    /\ muDropped = {}

\* execute: the unmutes of the run
ComputeUnmutes ==
    /\ muPc = "execute"
    /\ muUnmutes' = removeMuted(unmuteEntries(XpertGraphNodes), muMute)
    /\ muPc' = "streaming"
    /\ UNCHANGED <<muMute, muEmitted, muDropped>>
    /\ UNCHANGED exceptMute

\* a stream event of an agent node goes through the mapping of the result stream
MapStreamEvent ==
    /\ muPc = "streaming"
    /\ \E node \in { XpertGraphNodes[i] : i \in { k \in DOMAIN XpertGraphNodes :
                                                      XpertGraphNodes[k].type = "agent" } } :
          IF eventPasses(muUnmutes, eventTags(node))
          THEN /\ muEmitted' = muEmitted \cup {node.key}
               /\ UNCHANGED muDropped
          ELSE /\ muDropped' = muDropped \cup {node.key}
               /\ UNCHANGED muEmitted
    /\ UNCHANGED <<muMute, muUnmutes, muPc>>
    /\ UNCHANGED exceptMute

NextMute ==
    \/ ComputeUnmutes
    \/ MapStreamEvent

SpecMute == InitMute /\ [][NextMute]_vars

(***************************************************************************)
(* The wrapToolCall chain of getModelHooks as a tool node calls it, next   *)
(* to the wrapModelCall chain of the model node.  A handler is modelled by *)
(* the keys of the middlewares a request goes through, outermost first;    *)
(* every wrapper calls the handler it is given.                            *)
(***************************************************************************)
\* a middleware as far as the two wrappers read it
WrapMiddleware(key, wrapModelCall, wrapToolCall) ==
    [key |-> key, wrapModelCall |-> wrapModelCall, wrapToolCall |-> wrapToolCall]

WrapMiddlewareLists ==
    { [i \in 1..Len(hooks) |-> WrapMiddleware(MiddlewareKeys[i], hooks[i][1], hooks[i][2])] :
      hooks \in SeqsUpTo(BOOLEAN \X BOOLEAN, MaxMiddlewares) }

\* the handler of the tool node: tool.invoke
toolInvokeHandler == <<"tool.invoke">>

\* (next, middleware) => middleware.wrapToolCall ? (request, handler) =>
\*     middleware.wrapToolCall(request, (nextRequest) => next(nextRequest, handler)) : next
\* with the handler the tool node passes already put in
wrapToolCallback(next, middleware) ==
    IF ~middleware.wrapToolCall THEN next ELSE <<middleware.key>> \o next

RECURSIVE reduceLeftTool(_, _, _)
reduceLeftTool(mws, i, acc) ==
    IF i > Len(mws) THEN acc ELSE reduceLeftTool(mws, i + 1, wrapToolCallback(acc, mws[i]))

RECURSIVE reduceRightTool(_, _, _)
reduceRightTool(mws, i, acc) ==
    IF i = 0 THEN acc ELSE reduceRightTool(mws, i - 1, wrapToolCallback(acc, mws[i]))

MutWrapToolCall(mws, handler) ==
    IF \E i \in DOMAIN mws : mws[i].wrapToolCall
    THEN {reduceLeftTool(mws, 1, handler)}
    ELSE {}

\* getModelHooks: wrapToolCall applied to the handler, or undefined when no
\* middleware has the hook
wrapToolCall(mws, handler) ==
    IF \E i \in DOMAIN mws : mws[i].wrapToolCall
    THEN {reduceRightTool(mws, Len(mws), handler)}
    ELSE {}

\* ToolNode.run: this.wrapToolCall ? this.wrapToolCall(toolRequest, defaultHandler)
\*                                 : defaultHandler(toolRequest)
toolNodeCall(mws) ==
    IF wrapToolCall(mws, toolInvokeHandler) # {}
    THEN CHOOSE chain \in wrapToolCall(mws, toolInvokeHandler) : TRUE
    ELSE toolInvokeHandler

InitWrap ==
    /\ AgentStart({CHOOSE c \in Configs : TRUE})
    /\ RunnerIdle
    /\ ResumeIdle
    /\ GraphIdle
    /\ SelectorIdle
    /\ ToolOutputIdle
    /\ CompileIdle
    /\ ThreadIdle
    /\ SubAgentIdle
    /\ MuteIdle
    /\ wrMiddlewares \in WrapMiddlewareLists
    /\ wrModelTrace = << >>
    /\ wrToolTrace = << >>

\* callModel: a model request goes through wrappedModelHandler
WrapModelRequest ==
    /\ wrModelTrace = << >>
    /\ wrModelTrace' = wrappedModelHandler(wrMiddlewares)
    /\ UNCHANGED <<wrMiddlewares, wrToolTrace>>
    /\ UNCHANGED exceptWrap

\* ToolNode.run: a tool call goes through wrapToolCall
WrapToolRequest ==
    /\ wrToolTrace = << >>
    /\ wrToolTrace' = toolNodeCall(wrMiddlewares)
    /\ UNCHANGED <<wrMiddlewares, wrModelTrace>>
    /\ UNCHANGED exceptWrap

NextWrap ==
    \/ WrapModelRequest
    \/ WrapToolRequest

SpecWrap == InitWrap /\ [][NextWrap]_vars

(***************************************************************************)
(* ToolNode.run after the handler: what the node returns for each form of  *)
(* tool output, and what the step appends to the caller's agent channel    *)
(* and to the messages channel.                                            *)
(***************************************************************************)
MaxUpdateEntries == 2

\* channelName(caller)
AgentChannel == "agent_channel"

\* the keys a Command of a tool may update: the messages channel, the caller's
\* agent channel, a state variable
UpdateKeys == {"messages", AgentChannel, "plan"}

\* the forms of tool output: a ToolMessage (a raw value has been wrapped into
\* one by the handler), a Command with an object update, a Command with an
\* array update, an exception
ToolOutputForms ==
    [kind : {"toolMessage", "throw"}, object : {{}}, array : {<< >>},
     hasVariables : BOOLEAN, handleToolErrors : BOOLEAN]
    \cup
    [kind : {"commandObject"}, object : SUBSET UpdateKeys, array : {<< >>},
     hasVariables : BOOLEAN, handleToolErrors : BOOLEAN]
    \cup
    [kind : {"commandArray"}, object : {{}},
     array : UNION { [1..n -> UpdateKeys] : n \in 0..MaxUpdateEntries },
     hasVariables : BOOLEAN, handleToolErrors : BOOLEAN]

\* an entry of an update: the channel it writes and the messages it carries
UpdateEntry(channel, msgs) == [channel |-> channel, messages |-> msgs]

\* the message a tool puts under a key of its Command
CommandMessage(key) == <<"message of the tool's command", key>>

ResultMessage == <<"tool message">>

ErrorMessage == <<"Error: tool failed">>

\* { ...variables, [this.channel]: {messages: [output]}, messages: [output] },
\* and the same two channels when the node has no variables
toolMessageUpdate(hasVariables, msg) ==
    (IF hasVariables THEN <<UpdateEntry("plan", << >>)>> ELSE << >>)
    \o <<UpdateEntry(AgentChannel, <<msg>>), UpdateEntry("messages", <<msg>>)>>

\* { ...update, [this.channel]: {messages: update.messages} }
objectUpdate(keys) ==
    LET kept == keys \ {AgentChannel}
        entry(key) == UpdateEntry(key, IF key = "plan" THEN << >> ELSE <<CommandMessage(key)>>)
    IN  (IF "plan" \in kept THEN <<entry("plan")>> ELSE << >>)
        \o (IF "messages" \in kept THEN <<entry("messages")>> ELSE << >>)
        \o <<UpdateEntry(AgentChannel,
                         IF "messages" \in keys THEN <<CommandMessage("messages")>> ELSE << >>)>>

\* update.map((_) => _[0] === 'messages' ? [this.channel, {messages: _[1]}] : _)
arrayUpdate(entries) ==
    [i \in DOMAIN entries |->
        IF entries[i] = "messages"
        THEN UpdateEntry(AgentChannel, <<CommandMessage("messages")>>)
        ELSE UpdateEntry(entries[i],
                         IF entries[i] = "plan" THEN << >> ELSE <<CommandMessage(entries[i])>>)]

\* the catch block's Command: { messages: [toolMessage], [this.channel]: {messages: [toolMessage]} }
errorUpdate == <<UpdateEntry("messages", <<ErrorMessage>>), UpdateEntry(AgentChannel, <<ErrorMessage>>)>>

\* what the node returns for its tool call; thrown when the node rethrows
toolNodeUpdate(output) ==
    CASE output.kind = "toolMessage" ->
            [thrown |-> FALSE, update |-> toolMessageUpdate(output.hasVariables, ResultMessage)]
      [] output.kind = "commandObject" ->
            [thrown |-> FALSE, update |-> objectUpdate(output.object)]
      [] output.kind = "commandArray" ->
            [thrown |-> FALSE, update |-> arrayUpdate(output.array)]
      [] OTHER ->
            IF output.handleToolErrors
            THEN [thrown |-> FALSE, update |-> errorUpdate]
            ELSE [thrown |-> TRUE, update |-> << >>]

\* the messages an update appends to a channel, in the order of its entries
RECURSIVE appended(_, _)
appended(update, channel) ==
    IF update = << >> THEN << >>
    ELSE (IF Head(update).channel = channel THEN Head(update).messages ELSE << >>)
         \o appended(Tail(update), channel)

InitToolOutput ==
    /\ AgentStart({CHOOSE c \in Configs : TRUE})
    /\ RunnerIdle
    /\ ResumeIdle
    /\ GraphIdle
    /\ SelectorIdle
    /\ CompileIdle
    /\ ThreadIdle
    /\ SubAgentIdle
    /\ MuteIdle
    /\ WrapIdle
    /\ toOutput \in ToolOutputForms
    /\ toUpdate = << >>
    /\ toChannel = << >>
    /\ toGlobal = << >>
    /\ toPc = "run"

\* ToolNode.run from the handler's output to the node's return
ToolNodeReturn ==
    /\ toPc = "run"
    /\ LET result == toolNodeUpdate(toOutput)
       IN  /\ toUpdate' = result.update
           /\ toPc' = IF result.thrown THEN "failed" ELSE "returned"
    /\ UNCHANGED <<toOutput, toChannel, toGlobal>>
    /\ UNCHANGED exceptToolOutput

\* the step ends: the update is applied to the channels
ApplyToolUpdate ==
    /\ toPc = "returned"
    /\ toChannel' = appended(toUpdate, AgentChannel)
    /\ toGlobal' = appended(toUpdate, "messages")
    /\ toPc' = "applied"
    /\ UNCHANGED <<toOutput, toUpdate>>
    /\ UNCHANGED exceptToolOutput

NextToolOutput ==
    \/ ToolNodeReturn
    \/ ApplyToolUpdate

SpecToolOutput == InitToolOutput /\ [][NextToolOutput]_vars

(***************************************************************************)
(* Properties of the agent loop.                                           *)
(***************************************************************************)
LastAI(msgs) == msgs[LastAIIndex(msgs)]

ToolOps == {"ToolNode", "ToolResume", "ClientToolResume"}

\* C1: a resume of a HITL interrupt for k tool calls that carries fewer or more
\* than k decisions fails the run and leaves every message, hence every tool
\* call, as it was; so a resume that is accepted carries exactly k decisions
Thm_C1_DecisionCount ==
    (last.op = "HitlResume" /\ last.response.isArray)
        => /\ Len(last.response.decisions) # last.k
                => (pc = "failed" /\ messages = last.before)
           /\ pc # "failed" => Len(last.response.decisions) = last.k

Wit_C1_DecisionCount ==
    /\ last.op = "HitlResume"
    /\ last.response.isArray
    /\ last.k = 2
    /\ Len(last.response.decisions) = 3
    /\ pc = "failed"

\* the interrupt tool calls of the resume just made, and those it rejected
ReviewedBefore ==
    interruptToolCalls(LastAI(last.before).tool_calls, resolvedConfigs(cfg.interruptOn))

RejectedBefore ==
    LET idx == SelectSeq([i \in 1..Len(ReviewedBefore) |-> i],
                         LAMBDA i : last.response.decisions[i].type = "reject")
    IN  [j \in 1..Len(idx) |-> ReviewedBefore[idx[j]]]

\* C2: after an accepted resume with at least one reject, the tool_calls of the
\* AI message are exactly the rejected tool calls
CE_C2_OnlyRejected ==
    (/\ last.op = "HitlResume"
     /\ pc # "failed"
     /\ \E i \in 1..Len(last.response.decisions) : last.response.decisions[i].type = "reject")
        => LastAI(messages).tool_calls = RejectedBefore

\* C3: when the hook node before the router has set jumpTo to model, the node
\* the router hands control to is the model call
CE_C3_JumpToModel ==
    (last.op = "Router" /\ last.jumpTo = "model") => pc = "model"

\* C4: every ToolMessage written by a tool node in the current step answers
\* exactly one tool call of the AI message that precedes the step
CE_C4_Correspondence ==
    pc \in {"tools", "interrupted"} =>
        \A i \in 1..Len(writes) :
            isToolMessage(writes[i]) =>
                Cardinality({j \in 1..Len(LastAI(messages).tool_calls) :
                                LastAI(messages).tool_calls[j].id = writes[i].tool_call_id}) = 1

\* a ClientToolResponse with one message whose tool_call_id is not the call's
MismatchedResume ==
    /\ last.op = "ClientToolResume"
    /\ last.resume.isArray
    /\ Len(last.resume.toolMessages) = 1
    /\ last.call.id # Undef
    /\ last.resume.toolMessages[1].tool_call_id \notin {Undef, last.call.id}

\* C5: a client-tool resume with a mismatched tool_call_id fails the run: no
\* ToolMessage is written for the call and the model is not entered again
CE_C5_MismatchFails ==
    MismatchedResume => (pc = "failed" /\ Len(writes) = last.nWrites)

\* C6: the server-side body of a client tool is never invoked; its interrupt
\* carries exactly the tool call; the message handed back to the tool node has
\* the content and status of the one message of the resume payload, and the
\* payload's tool_call_id when it gives one
Thm_C6_ClientTool ==
    /\ \A c \in invoked : c.name \notin cfg.clientTools
    /\ (pc = "interrupted" /\ interrupt.type = "tool" /\ Head(sends).toolCall.name \in cfg.clientTools)
            => interrupt.payload = <<Head(sends).toolCall>>
    /\ (last.op = "ClientToolResume" /\ pc = "tools" /\ Len(events) = last.nEvents)
            => /\ Len(last.resume.toolMessages) = 1
               /\ Len(writes) = last.nWrites + 1
               /\ Last(writes).content = <<last.resume.toolMessages[1].content>>
               /\ Last(writes).status = last.resume.toolMessages[1].status
               /\ Last(writes).tool_call_id \in
                     {last.resume.toolMessages[1].tool_call_id, last.call.id} \ {Undef}

Wit_C6_ClientTool ==
    /\ last.op = "ClientToolResume"
    /\ pc = "tools"
    /\ Len(events) = last.nEvents
    /\ Last(writes).content = <<"ok">>
    /\ invoked # {}

\* C7: when a tool throws an Error and handleToolErrors is on, the node emits
\* one on_tool_error event and hands back a ToolMessage with status "error"
\* whose content starts with "Error: ", and the run goes on
CE_C7_ErrorMessage ==
    (/\ last.op \in {"ToolNode", "ToolResume"}
     /\ last.outcome = "throw"
     /\ cfg.handleToolErrors)
        => /\ pc = "tools"
           /\ Len(events) = last.nEvents + 1
           /\ Len(writes) = last.nWrites + 1
           /\ Head(Last(writes).content) = "Error: "
           /\ Last(writes).status = "error"

\* what the execution of the last tool call raised
BadClientResponse ==
    \/ ~last.resume.isArray
    \/ Len(last.resume.toolMessages) # 1
    \/ /\ last.resume.toolMessages[1].tool_call_id \notin {Undef, ""}
       /\ last.call.id \notin {Undef, ""}
       /\ last.resume.toolMessages[1].tool_call_id # last.call.id
    \/ /\ last.resume.toolMessages[1].tool_call_id = Undef
       /\ last.call.id \in {Undef, ""}

Raised ==
    IF last.call.name \in cfg.clientTools
    THEN IF last.op = "ToolNode" THEN "interrupt"
         ELSE IF BadClientResponse THEN "error" ELSE "none"
    ELSE CASE last.outcome = "throw" -> "error"
           [] last.outcome = "interrupt" -> "interrupt"
           [] OTHER -> "none"

CE_C13_ResumeIdempotent ==
    (replay.active /\ replay.wellFormed /\ cfg.clientTools = {}) =>
        /\ messages = replay.messages
        /\ writes = replay.writes
        /\ invoked = replay.invoked
        /\ turn = replay.turn

OnInterrupts == {i \in 1..Len(emitted) : emitted[i] = ON_INTERRUPT}

\* C10: when the graph stream has ended with pending tasks, exactly one
\* on_interrupt event is emitted, after every content event, and a subscriber
\* still there sees the stream end with NodeInterrupt; when it has ended with
\* no pending task, no on_interrupt event is emitted and a subscriber still
\* there sees the stream complete; no on_interrupt event is emitted otherwise
Thm_C10_InterruptEvent ==
    /\ (rpc = "finished" /\ tasks # << >>)
          => /\ Cardinality(OnInterrupts) = 1
             /\ Last(emitted) = ON_INTERRUPT
             /\ unsub = "none" => (ending = "error" /\ rerror = "NodeInterrupt")
    /\ (rpc = "finished" /\ tasks = << >>)
          => /\ OnInterrupts = {}
             /\ unsub = "none" => ending = "complete"
    /\ rpc # "finished" => OnInterrupts = {}

Wit_C10_InterruptEvent ==
    /\ rpc = "finished"
    /\ tasks = <<"after_model">>
    /\ emitted = <<"message", "message", ON_INTERRUPT>>
    /\ ending = "error"
    /\ unsub = "none"

\* C14: a run makes no more steps than agentConfig.recursionLimit, or the
\* default limit when none is configured; the graph gives up with its
\* recursion error only at the limit, and the result stream then ends with the
\* translated recursion-limit message, never with the graph's own error
Thm_C14_RecursionBound ==
    /\ steps <= IF agentConfig.hasRecursionLimit THEN agentConfig.recursionLimit
                ELSE AgentRecursionLimit
    /\ (rpc = "catching" /\ rerror = "GraphRecursionError")
          => steps = IF agentConfig.hasRecursionLimit THEN agentConfig.recursionLimit
                     ELSE AgentRecursionLimit
    /\ rpc = "failed" => rerror \in {"RecursionLimitReached", "Error"}
    /\ (rpc = "failed" /\ unsub = "none") => ending = "error"

Wit_C14_RecursionBound ==
    /\ rpc = "failed"
    /\ agentConfig.hasRecursionLimit
    /\ agentConfig.recursionLimit = 2
    /\ steps = 2
    /\ rerror = "RecursionLimitReached"
    /\ ending = "error"

(***************************************************************************)
(* Properties of the invocation.                                           *)
(***************************************************************************)
\* C11: once the graph has started from a command that carries an update,
\* the update is in the channels, whatever else the command carries
CE_C11_UpdateApplied ==
    (rsPc = "started" /\ ~rejectFlag /\ command.given /\ command.update.given)
        => values.title = command.update.title

\* the tool calls of the last message of the checkpoint, and after the rewrite
CallsBefore == Last(checkpoint.messages).tool_calls

CallsAfter == Last(values.messages).tool_calls

CommandIds == {command.toolCalls[i].id : i \in 1..Len(command.toolCalls)}

\* C12: a command with toolCalls rewrites only the last AI message: same
\* messages elsewhere, same id and position, same tool calls in the same order,
\* args changed only for ids of the command, title untouched; when the rewrite
\* throws nothing is written
Thm_C12_RewriteFrame ==
    (rsPc \in {"prepared", "failed"} /\ ~rejectFlag /\ command.given /\ Len(command.toolCalls) > 0)
        => /\ values.title = checkpoint.title
           /\ Len(values.messages) = Len(checkpoint.messages)
           /\ \A i \in 1..(Len(values.messages) - 1) : values.messages[i] = checkpoint.messages[i]
           /\ Last(values.messages).id = Last(checkpoint.messages).id
           /\ Last(values.messages).type = Last(checkpoint.messages).type
           /\ Last(values.messages).content = Last(checkpoint.messages).content
           /\ Len(CallsAfter) = Len(CallsBefore)
           /\ \A i \in 1..Len(CallsAfter) :
                 /\ CallsAfter[i].id = CallsBefore[i].id
                 /\ CallsAfter[i].name = CallsBefore[i].name
                 /\ CallsAfter[i].id \notin CommandIds => CallsAfter[i].args = CallsBefore[i].args
           /\ rsPc = "failed" => values = checkpoint

Wit_C12_RewriteFrame ==
    /\ rsPc = "prepared"
    /\ ~rejectFlag
    /\ Len(CallsBefore) = 2
    /\ CommandIds = {"t2", "t9"}
    /\ CallsAfter[1] = CallsBefore[1]
    /\ CallsAfter[2].args = [path |-> "a", force |-> "yes"]

(***************************************************************************)
(* Properties of the compiled agent graph.                                 *)
(***************************************************************************)
\* C15: every conditional router that answers in a run was added with a
\* path-map, and every destination of its answer is in that path-map.
CE_C15_PathMap ==
    routed.source # Undef =>
        /\ routed.hasPathMap
        /\ routed.destinations \subseteq routed.pathMap

\* the keys of the middlewares that define wrapModelCall, in registration order
WrapKeys == [i \in 1..Len(SelectSeq(compiled.middlewares, LAMBDA m : m.wrapModelCall)) |->
               SelectSeq(compiled.middlewares, LAMBDA m : m.wrapModelCall)[i].key]

\* C16 (as the code has it): with middlewares registered in order 1..N, a model
\* request goes through the wrapModelCall handlers in registration order,
\* middleware 1 outermost and middleware N directly around the core handler;
\* middlewares without the hook are skipped.
Thm_C16_WrapOrder ==
    modelCalls > 0 => wrapTrace = WrapKeys \o <<"model">>

\* a model call under three middlewares, two of them with wrapModelCall and one
\* without, has gone the two handlers and reached the model
Wit_C16_WrapOrder ==
    /\ modelCalls > 0
    /\ Len(compiled.middlewares) = 3
    /\ Len(WrapKeys) = 2
    /\ wrapTrace = WrapKeys \o <<"model">>

\* C16 as stated: a model request goes through the handlers of the middlewares
\* N, N-1, ..., 1 in this order before it reaches the model.
CE_C16_RightToLeft ==
    modelCalls > 0 => wrapTrace = reverse(WrapKeys) \o <<"model">>

\* the decision router has answered for the last model call
Decided == routed.source \notin {Undef} \cup toolNames(compiled)
                            \cup Range(afterAgentHooks(compiled.middlewares))

\* the afterModel hooks ran in reverse registration order, each once, and the
\* decision router read the state the first registered hook produced
ReverseOnce ==
    /\ routed.hookRuns = reverse(afterModelHooks(compiled.middlewares))
    /\ afterModelHooks(compiled.middlewares) # << >> =>
          /\ routed.source = afterModelHooks(compiled.middlewares)[1]
          /\ routed.state.writer = afterModelHooks(compiled.middlewares)[1]

AutoApprovedBefore ==
    autoApprovedToolCalls(LastAI(last.before).tool_calls, resolvedConfigs(cfg.interruptOn))

\* a tool call after its decision: an edit gives it the edited name and args
\* under the same id, an approve or a reject leaves it as it is
Applied(decision, call) ==
    IF decision.type = "edit"
    THEN ToolCall(call.id, decision.editedAction.name, decision.editedAction.args)
    ELSE call

\* the positions of the decisions of the resume just made that are rejects
RejectIndexes ==
    SelectSeq([i \in 1..Len(last.response.decisions) |-> i],
              LAMBDA i : last.response.decisions[i].type = "reject")

\* the positions of the decisions whose tool call stays on the AI message
KeptIndexes ==
    IF RejectIndexes = << >> THEN [i \in 1..Len(last.response.decisions) |-> i]
    ELSE RejectIndexes

\* the HITL resume just made was accepted
Accepted == last.op = "HitlResume" /\ pc # "failed"

\* C18: in a model turn with tool calls matched by interruptOn the HITL hook
\* raises one interrupt, whose action requests are those of the matched tool
\* calls in the order of the AI message, and none after the resume; an accepted
\* resume applies decision i to the i-th matched tool call and leaves the tool
\* calls that were not matched as they were.
Thm_C18_PairedDecisions ==
    /\ (pc = "interrupted" /\ interrupt.type = "hitl") =>
          LET calls == interruptToolCalls(LastAI(messages).tool_calls,
                                          resolvedConfigs(cfg.interruptOn))
          IN  /\ Len(calls) > 0
              /\ interrupt.payload =
                    [i \in 1..Len(calls) |-> [name |-> calls[i].name, args |-> calls[i].args]]
    /\ last.op = "HitlResume" => (interrupt = NoInterrupt /\ pc \in {"router", "failed"})
    /\ Accepted =>
          /\ Len(last.response.decisions) = Len(ReviewedBefore)
          /\ LastAI(messages).tool_calls =
                AutoApprovedBefore \o
                [j \in 1..Len(KeptIndexes) |->
                    Applied(last.response.decisions[KeptIndexes[j]], ReviewedBefore[KeptIndexes[j]])]

\* two matched tool calls, the first approved and the second edited: the first
\* is on the AI message as it was, the second under its id with the edited name
Wit_C18_PairedDecisions ==
    /\ Accepted
    /\ Len(ReviewedBefore) = 2
    /\ last.response.decisions[1].type = "approve"
    /\ last.response.decisions[2].type = "edit"
    /\ LastAI(messages).tool_calls[1] = ReviewedBefore[1]
    /\ LastAI(messages).tool_calls[2].id = ReviewedBefore[2].id
    /\ LastAI(messages).tool_calls[2].name = "search"
    /\ ReviewedBefore[2].name = "delete"

\* the messages the resume just made has added to the channel
AddedByResume == SubSeq(messages, Len(last.before) + 1, Len(messages))

\* C19: an accepted HITL resume appends one ToolMessage per reject decision, in
\* the order of the decisions, with status error, the rejected call's id as
\* tool_call_id and the human's message as content, or the default text when
\* the decision has no message; it appends nothing for approve and edit.
Thm_C19_RejectMessages ==
    Accepted =>
        /\ Len(AddedByResume) = Len(RejectIndexes)
        /\ \A j \in 1..Len(RejectIndexes) :
              LET decision == last.response.decisions[RejectIndexes[j]]
                  call == ReviewedBefore[RejectIndexes[j]]
              IN  /\ isToolMessage(AddedByResume[j])
                  /\ AddedByResume[j].status = "error"
                  /\ AddedByResume[j].tool_call_id = call.id
                  /\ AddedByResume[j].content =
                        IF decision.message # Undef THEN <<decision.message>>
                        ELSE <<"User rejected the tool call for ", call.name, " with id ", call.id>>

\* an approve and a reject with the message nope: one ToolMessage, for the
\* second call, with the human's text
Wit_C19_RejectMessages ==
    /\ Accepted
    /\ Len(ReviewedBefore) = 2
    /\ last.response.decisions[1].type = "approve"
    /\ last.response.decisions[2].type = "reject"
    /\ last.response.decisions[2].message = "nope"
    /\ Len(AddedByResume) = 1
    /\ AddedByResume[1].content = <<"nope">>
    /\ AddedByResume[1].tool_call_id = ReviewedBefore[2].id

\* the resume just made pairs some decision with a tool call whose
\* allowedDecisions do not hold the decision's type
NotAllowed ==
    /\ last.op = "HitlResume"
    /\ last.response.isArray
    /\ Len(last.response.decisions) = Len(ReviewedBefore)
    /\ \E i \in 1..Len(ReviewedBefore) :
          last.response.decisions[i].type
              \notin resolvedConfigs(cfg.interruptOn)[ReviewedBefore[i].name]

\* C20: a HITL resume with a decision whose type is not among the
\* allowedDecisions of the tool call it is paired with fails, and the messages of
\* the agent's channel, the AI message's tool_calls among them, are what they
\* were before the resume, also when the decisions before it were allowed.
Thm_C20_NotAllowedFails ==
    NotAllowed => (pc = "failed" /\ messages = last.before)

\* an allowed approve followed by an edit that the tool's configuration does
\* not allow: the resume has failed and nothing was written
Wit_C20_NotAllowedFails ==
    /\ NotAllowed
    /\ Len(ReviewedBefore) = 2
    /\ last.response.decisions[1].type = "approve"
    /\ last.response.decisions[2].type = "edit"
    /\ last.response.decisions[2].editedAction.name = "search"
    /\ "edit" \notin resolvedConfigs(cfg.interruptOn)[ReviewedBefore[2].name]
    /\ pc = "failed"
    /\ messages = last.before

\* the ids of a list of tool calls
IdsOf(calls) == {calls[i].id : i \in DOMAIN calls}

\* C21: after an accepted HITL resume every tool call of the AI message has an
\* id the message had before the interrupt, and, when no decision is a reject,
\* the call of an edit decision is on the message under the original call's id
\* with the edited action's name and args.
Thm_C21_EditKeepsId ==
    Accepted =>
        /\ IdsOf(LastAI(messages).tool_calls) \subseteq IdsOf(LastAI(last.before).tool_calls)
        /\ RejectIndexes = << >> =>
              \A i \in 1..Len(ReviewedBefore) :
                  last.response.decisions[i].type = "edit" =>
                      ToolCall(ReviewedBefore[i].id,
                               last.response.decisions[i].editedAction.name,
                               last.response.decisions[i].editedAction.args)
                          \in Range(LastAI(messages).tool_calls)

\* a delete call with a provider id edited into a search call: the message
\* holds the search call under the delete call's id
Wit_C21_EditKeepsId ==
    /\ Accepted
    /\ Len(ReviewedBefore) = 1
    /\ ReviewedBefore[1].name = "delete"
    /\ ReviewedBefore[1].id # Undef
    /\ last.response.decisions[1].type = "edit"
    /\ ToolCall(ReviewedBefore[1].id, "search", "edited") \in Range(LastAI(messages).tool_calls)
    /\ \A i \in DOMAIN LastAI(messages).tool_calls : LastAI(messages).tool_calls[i].name # "delete"

(***************************************************************************)
(* Properties of the ClientToolMiddleware's resume.                        *)
(***************************************************************************)
\* the client-tool resume just made was accepted: its message was handed back
\* to the tool node and no error was raised
ClientAccepted ==
    /\ pc = "tools"
    /\ Len(writes) = last.nWrites + 1
    /\ Len(events) = last.nEvents

\* the payload holds exactly one message and that message's tool_call_id is
\* the interrupted call's id
OneMatchingMessage ==
    /\ last.resume.isArray
    /\ Len(last.resume.toolMessages) = 1
    /\ last.resume.toolMessages[1].tool_call_id # Undef
    /\ last.resume.toolMessages[1].tool_call_id = last.call.id

\* C22: a client-tool resume is accepted only if its payload holds exactly one
\* message whose tool_call_id is the interrupted call's id; for any other
\* payload the wrapper raises an error and hands no message of the payload back.
CE_C22_ClientPayload ==
    last.op = "ClientToolResume" => (ClientAccepted <=> OneMatchingMessage)

(***************************************************************************)
(* Properties of the agent's router.                                       *)
(***************************************************************************)
\* one Send per tool call, to the node of the call's name, with the call
SendsFor(calls) == [i \in 1..Len(calls) |-> Send(calls[i].name, calls[i])]

\* the router has scheduled no tool node
NoToolScheduled == sends = << >> /\ pc # "tools"

RequestNames == {selRequest.tools[i].name : i \in DOMAIN selRequest.tools} \ {Undef}

UnknownAnswered ==
    /\ selResponse.hasTools
    /\ \E i \in DOMAIN selResponse.tools : selResponse.tools[i] \notin RequestNames

\* C25: when the selection model's answer names a tool that is not one of the
\* request's tools, wrapModelCall fails and the inner model handler is not
\* invoked, wherever the unknown name stands in the answer and whether or not
\* maxTools names came before it
Thm_C25_UnknownToolFails ==
    UnknownAnswered => (selPc = "failed" /\ handlerCalls = << >>)

Wit_C25_UnknownToolFails ==
    /\ selOptions.maxTools = Some(1)
    /\ selResponse.hasTools
    /\ selResponse.tools = <<"a", "b", "zz">>
    /\ "zz" \notin RequestNames
    /\ {"a", "b"} \subseteq RequestNames
    /\ selPc = "failed"
    /\ handlerCalls = << >>

\* the names of a sequence, each once, in the order of their first occurrence
RECURSIVE Distinct(_)
Distinct(s) ==
    IF s = << >> THEN << >>
    ELSE LET before == Distinct(SubSeq(s, 1, Len(s) - 1))
         IN  IF s[Len(s)] \in Range(before) THEN before ELSE Append(before, s[Len(s)])

\* the first maxTools distinct names of the answer
FirstDistinct ==
    LET distinct == Distinct(selResponse.tools)
    IN  IF selOptions.maxTools = Absent \/ Len(distinct) <= ValueOf(selOptions.maxTools)
        THEN distinct
        ELSE SubSeq(distinct, 1, ValueOf(selOptions.maxTools))

AlwaysNames == Range(ValueOf(Coalesce(selOptions.alwaysInclude, Some(<< >>))))

\* the inner handler was called with the outcome of a selection
SelectionPassed == selPc = "handled" /\ selection.kind = "selection"

PassedTools == handlerCalls[Len(handlerCalls)]

\* the structured tools handed to the inner handler that are not in alwaysInclude
PassedFromAnswer ==
    {PassedTools[i].name : i \in {j \in DOMAIN PassedTools :
        isStructuredTool(PassedTools[j]) /\ PassedTools[j].name \notin AlwaysNames}}

\* C26: the tools the inner handler gets from the selection model's answer are
\* those named by the first maxTools distinct names of the answer, so at most
\* maxTools of them; the tools of alwaysInclude are passed besides them
Thm_C26_MaxToolsTruncation ==
    SelectionPassed =>
        /\ PassedFromAnswer = Range(FirstDistinct)
        /\ selOptions.maxTools # Absent
              => Cardinality(PassedFromAnswer) <= ValueOf(selOptions.maxTools)
        /\ \A name \in AlwaysNames : \E i \in DOMAIN PassedTools :
              isStructuredTool(PassedTools[i]) /\ PassedTools[i].name = name

Wit_C26_MaxToolsTruncation ==
    /\ SelectionPassed
    /\ selOptions.maxTools = Some(1)
    /\ selOptions.alwaysInclude = Some(<<"search">>)
    /\ selResponse.tools = <<"b", "a", "b">>
    /\ PassedFromAnswer = {"b"}
    /\ \E i \in DOMAIN PassedTools : PassedTools[i] = StructuredTool("search")

\* how often a tool stands in the tools handed to the inner handler
Occurrences(tool) == Cardinality({i \in DOMAIN PassedTools : PassedTools[i] = tool})

RequestTools == Range(selRequest.tools)

AlwaysOnce ==
    \A tool \in RequestTools :
        (isStructuredTool(tool) /\ tool.name \in AlwaysNames) => Occurrences(tool) = 1

ProviderOnce ==
    \A tool \in RequestTools : ~isStructuredTool(tool) => Occurrences(tool) = 1

NothingElse ==
    \A i \in DOMAIN PassedTools :
        \/ ~isStructuredTool(PassedTools[i])
        \/ PassedTools[i].name \in AlwaysNames
        \/ PassedTools[i].name \in Range(selResponse.tools)

\* C27: whatever the selection model answers, the tools handed to the inner
\* handler hold every tool named in alwaysInclude once, every provider-specific
\* tool dict of the request once, and no tool that is neither selected, nor in
\* alwaysInclude, nor a provider dict
CE_C27_AlwaysAndProviderOnce ==
    SelectionPassed => (AlwaysOnce /\ ProviderOnce /\ NothingElse)

(***************************************************************************)
(* Properties of the model call's error handling.                          *)
(***************************************************************************)
\* the router of the agent's decision node or of its final exit node answered
\* for a state that carries the model call's error
ErrorRouted ==
    /\ routed.source \in {agentDecisionNode(compiled), agentFinalExitNode(compiled)}
    /\ routed.state.error # Undef

\* the router leads into the afterAgent hooks, whose last node routes again
ToAfterAgent ==
    /\ afterAgentEntryNode(compiled) # Undef
    /\ routed.source = agentDecisionNode(compiled)

Finalized == rpc # "idle" /\ ~subscribed

\* C30: once the run is aborted or its result stream has finalized, close()
\* has been called on every toolset that was opened while the run's graph and
\* its nested sub-agent graphs were compiled, however the run ended
Thm_C30_ToolsetsClosed ==
    (aborted \/ Finalized) =>
        \A g \in Subgraphs : \A t \in toolsets[g] : closeCalls[t] >= 1

Wit_C30_ToolsetsClosed ==
    /\ rpc = "finished"
    /\ tasks # << >>
    /\ toolsets["agent"] = {"ts1", "ts2"}
    /\ toolsets["helper"] = {"ts3"}
    /\ \A t \in {"ts1", "ts2", "ts3"} : closeCalls[t] = 1

\* the tools of the agent that agentConfig.interruptBefore names
SensitiveTools == { tool \in cmpGraph.tools : tool.lc_name \in cmpInput.interruptBefore }

\* C31: every tool of the compiled graph that agentConfig.interruptBefore names,
\* whatever its origin, is in the compiled graph's interruptBefore, and the run
\* has executed no such tool without having paused before it and been resumed.
CE_C31_SensitiveToolsInterrupt ==
    cmpPc \in {"running", "paused"} =>
        /\ \A tool \in SensitiveTools : tool.name \in cmpGraph.interruptBefore
        /\ \A run \in cmpExecuted :
              (\E tool \in SensitiveTools : tool.name = run.tool) => run.paused

\* a middleware declares a key under the name of an existing channel, or of
\* another middleware's key, with a different reducer
ChannelConflict ==
    \E i \in DOMAIN cmpInput.middlewares : \E shape \in cmpInput.middlewares[i] : \E key \in shape :
        /\ ~startsWithUnderscore(key.name)
        /\ \/ \E c \in existedStateVariables : c.name = key.name /\ c.reducer # key.reducer
           \/ \E j \in DOMAIN cmpInput.middlewares \ {i} : \E other \in cmpInput.middlewares[j] :
                 \E k2 \in other : k2.name = key.name /\ k2.reducer # key.reducer

\* C32: when a middleware's state schema declares a channel name that
\* conflicts with an existing channel or with another middleware's channel of
\* the same name and a different reducer, the compilation does not produce a graph.
CE_C32_ChannelConflictFails ==
    ChannelConflict => cmpPc \notin {"running", "paused"}

\* the requests that ask for this thread_id with if_exists = do_nothing
DoNothingRequests(threadId) ==
    { r \in DOMAIN thRequests : /\ thRequests[r].input.thread_id = threadId
                                /\ thRequests[r].input.if_exists = "do_nothing" }

\* C33: when every request for a thread_id comes with if_exists = do_nothing,
\* there is at most one conversation of that thread_id, however the requests
\* interleave, and every request that has ended has returned that conversation.
CE_C33_CreateIdempotent ==
    \A threadId \in {"th1"} :
        (\A r \in DOMAIN thRequests :
            thRequests[r].input.thread_id = threadId => r \in DoNothingRequests(threadId))
        => /\ Cardinality({ i \in DOMAIN thConversations :
                               thConversations[i].threadId = <<"given", threadId>> }) <= 1
           /\ \A r \in DoNothingRequests(threadId) :
                 thRequests[r].pc = "done" =>
                     /\ thRequests[r].outcome.kind = "thread"
                     /\ \E i \in DOMAIN thConversations :
                           /\ thConversations[i].threadId = <<"given", threadId>>
                           /\ thConversations[i].id = thRequests[r].outcome.conversation

\* the positions of the events of this type and execution row in the subscriber's stream
EventsOf(type, id) ==
    { k \in DOMAIN saEvents : saEvents[k].type = type /\ saEvents[k].execution = id }

\* the invocation has left the sub-agent's node
SubAgentEnded(i) == saInvocations[i].pc \in {"returned", "thrown"}

Unmuted(key) == \E i \in DOMAIN muUnmutes : muUnmutes[i] = <<key, TeamId>>

\* a mute entry is a prefix of the tag path the node is listed under
MutedByPrefix(key) ==
    \E i \in DOMAIN muMute :
        /\ Len(muMute[i]) <= 2
        /\ \A k \in DOMAIN muMute[i] : muMute[i][k] = <<key, TeamId>>[k]

\* every value of a mute entry is the node's key or the team's id
MutedByValues(key) ==
    \E i \in DOMAIN muMute : \A k \in DOMAIN muMute[i] : muMute[i][k] \in {key, TeamId}

AgentKeys == { XpertGraphNodes[i].key : i \in { k \in DOMAIN XpertGraphNodes :
                                                XpertGraphNodes[k].type = "agent" } }

KeysWith(hook) ==
    LET hooked == SelectSeq(wrMiddlewares, LAMBDA m : IF hook = "wrapToolCall" THEN m.wrapToolCall
                                                       ELSE m.wrapModelCall)
    IN  [i \in 1..Len(hooked) |-> hooked[i].key]

\* a trace cut down to the middlewares that have both hooks
BothHooks(trace) ==
    SelectSeq(trace, LAMBDA key : \E i \in DOMAIN wrMiddlewares :
                                     /\ wrMiddlewares[i].key = key
                                     /\ wrMiddlewares[i].wrapModelCall
                                     /\ wrMiddlewares[i].wrapToolCall)

\* C36: a tool call goes through the wrapToolCall handlers of the middlewares
\* that have the hook, first registered outermost, and ends at the tool
\* invocation; the middlewares that have both hooks see a tool call in the
\* order in which they see a model request.
Thm_C36_WrapToolCallOrder ==
    /\ wrToolTrace # << >> =>
          /\ wrToolTrace = KeysWith("wrapToolCall") \o <<"tool.invoke">>
          /\ wrToolTrace[Len(wrToolTrace)] = "tool.invoke"
    /\ (wrToolTrace # << >> /\ wrModelTrace # << >>) =>
          BothHooks(wrToolTrace) = BothHooks(wrModelTrace)

\* three middlewares, the first and the third with both hooks and the second
\* with wrapModelCall only: the tool call went through the first, then the third
Wit_C36_WrapToolCallOrder ==
    /\ Len(wrMiddlewares) = 3
    /\ wrMiddlewares[2].wrapModelCall /\ ~wrMiddlewares[2].wrapToolCall
    /\ wrToolTrace = <<"m1", "m3", "tool.invoke">>
    /\ wrModelTrace = <<"m1", "m2", "m3", "model">>

\* the names interruptOn submits to review
ReviewedNames == IF cfg.interruptOn.set THEN DOMAIN resolvedConfigs(cfg.interruptOn) ELSE {}

\* the tool calls of the AI message the pending HITL interrupt is about
UnderReview ==
    IF pc = "interrupted" /\ interrupt.type = "hitl"
    THEN Range(interruptToolCalls(messages[LastAIIndex(messages)].tool_calls,
                                  resolvedConfigs(cfg.interruptOn)))
    ELSE {}

\* C37: a tool call handed to tool.invoke under a name that interruptOn submits
\* to review has an approve or edit decision of a resume on its id; while the
\* HITL interrupt of a turn is pending no call under review has been executed;
\* and a call that was rejected is never executed.
Thm_C37_ReviewedNeedsDecision ==
    /\ \A c \in invoked :
          c.name \in ReviewedNames =>
              \E d \in decided : d.id = c.id /\ d.type \in {"approve", "edit"}
    /\ \A c \in UnderReview : c.id # Undef => \A x \in invoked : x.id # c.id
    /\ \A d \in decided :
          (d.type = "reject" /\ d.id # Undef) => \A x \in invoked : x.id # d.id

\* a reviewed call was approved and executed, and a later reviewed call was
\* rejected and has not been executed
Wit_C37_ReviewedNeedsDecision ==
    /\ \E c \in invoked : /\ c.name \in ReviewedNames
                          /\ c.id # Undef
                          /\ \E d \in decided : d.id = c.id /\ d.type = "approve"
    /\ \E d \in decided : d.type = "reject" /\ d.id # Undef

\* the tool messages that follow the last AI message of the agent's channel
ToolResults ==
    IF LastAIIndex(messages) = 0 THEN << >>
    ELSE SelectSeq(SubSeq(messages, LastAIIndex(messages) + 1, Len(messages)), isToolMessage)

\* the tool calls of the last AI message of the agent's channel
TurnCalls == IF LastAIIndex(messages) = 0 THEN << >> ELSE messages[LastAIIndex(messages)].tool_calls

\* C38: when the step of the tool nodes of a turn with k tool calls has ended,
\* the agent's channel holds exactly k tool results after the AI message, and
\* exactly one of them answers each tool-call id.
CE_C38_OneResultPerCall ==
    last.op = "ToolsDone" =>
        /\ Len(ToolResults) = Len(TurnCalls)
        /\ \A i \in DOMAIN TurnCalls :
              TurnCalls[i].id # Undef =>
                  Cardinality({ j \in DOMAIN ToolResults :
                                   ToolResults[j].tool_call_id = TurnCalls[i].id }) = 1

\* the limit prepareSelectionRequest announces to the selection model
AnnouncedMaxTools == Coalesce(selContext.maxTools, selOptions.maxTools)

\* the names prepareSelectionRequest withholds from the selection
WithheldNames ==
    Range(ValueOf(Coalesce(selContext.alwaysInclude, Coalesce(selOptions.alwaysInclude, Some(<< >>)))))

\* the tools handed to the inner handler that were offered to the selection model
PassedOffered ==
    { PassedTools[i].name : i \in { j \in DOMAIN PassedTools :
        isStructuredTool(PassedTools[j]) /\ PassedTools[j].name \in Range(selection.validToolNames) } }

\* C39: the answer of the selection model is filtered with the values the
\* selection request was built with, also when the runtime context overrides
\* the options: of the tools offered for selection at most the announced limit
\* is handed to the inner handler, and every tool withheld from the selection
\* is handed to it.
CE_C39_SameValuesBothPhases ==
    SelectionPassed =>
        /\ AnnouncedMaxTools # Absent =>
              Cardinality(PassedOffered) <= ValueOf(AnnouncedMaxTools)
        /\ \A name \in WithheldNames :
              \E i \in DOMAIN PassedTools :
                  isStructuredTool(PassedTools[i]) /\ PassedTools[i].name = name

\* C40: whatever the form of the tool's output, the messages the tool node's
\* update appends to the caller's agent channel are the messages it appends to
\* the messages channel.
CE_C40_BothChannels ==
    toPc = "applied" => toChannel = toGlobal

====
